---- MODULE Spec2Model ----
(***************************************************************************)
(* A model of highlights-ai: the POST /api/detect-balls streaming route    *)
(* with the files it shares with /api/process-video and /api/cache, the    *)
(* editor's stream reader (startBallDetection) with the page state it      *)
(* reports to, and the ResultAggregator described by the specification.    *)
(***************************************************************************)
EXTENDS Integers, Sequences, FiniteSets, TLC

(* ---------------- bounds of the model ---------------- *)

\* sampled frames per video (frame indices 0..MaxFrames-1)
MaxFrames == 2
\* distinct videos a user can upload (ids 1..MaxVideos; 0 = no input.mp4)
MaxVideos == 2

\* lines that do not parse in one upstream body
MaxMalformed == 1

Videos == 1..MaxVideos

VARIABLES
    \* --- files under .cache ---
    inputVideo,      \* id of the video stored as input.mp4, 0 when absent
    ballFile,        \* ball_detections.json: [exists, data]
    \* --- one request of POST /api/detect-balls ---
    pc,              \* position of the handler
    path,            \* which path the request took
    out,             \* events enqueued on the response stream, in order
    streamClosed,    \* controller.close() has run
    cancelled,       \* the caller cancelled / disconnected from the stream
    allDetections,   \* the route's accumulator (line 92)
    jobVideo,        \* the video the Flask job was started on
    upNext,          \* next frame index the upstream stream will carry
    upTerminal,      \* terminal line read from upstream: none/done/error
    flaskCalls,      \* calls of Flask /balls/stream by this request
    upstreamReads,   \* reads of the upstream body by this request
    detectorCalls,   \* runs of ball-detector.py by this request
    storeWrites,     \* writeFile(ball_detections.json) by this request
    replayInput,     \* input.mp4's video when the cache was replayed
    cacheRead,       \* outcome of the cache check: pending/hit/miss
    upMalformed,     \* malformed lines read from the upstream body
    fallbackCause,   \* why this request entered the fallback
    detectorFailed,  \* the fallback detector failed in this request
    persistedRun,    \* [live, forwarded]: the stored result was written by a
                     \* completed live run that forwarded these records
    \* --- the last response of POST /api/process-video ---
    uploadResp       \* [status, scenes, sceneDetection]

serverVars == <<inputVideo, ballFile, pc, path, out, streamClosed, cancelled,
                allDetections, jobVideo, upNext, upTerminal, flaskCalls,
                upstreamReads, detectorCalls, storeWrites, replayInput, cacheRead,
                upMalformed, fallbackCause, detectorFailed, persistedRun,
                uploadResp>>

\* --- the editor's detection run (startBallDetection) and the page state ---
VARIABLES
    cpc,                 \* position of startBallDetection
    attempted,           \* ballDetectionAttemptedRef
    isLoading,           \* isBallDetectionLoading
    estTimer,            \* ballDetectionTimerRef holds a running interval
    abortTimer,          \* the 10-minute abort timeout is armed
    isStreaming,         \* isStreamingRef
    aborted,             \* abortController.signal.aborted
    accumulated,         \* accumulatedDetectionsRef
    flushDue,            \* Date.now() - lastFlushRef > 500
    ballDetections,      \* page state: [set, data] (undefined when not set)
    ballDetectionError,  \* page state: "" models null
    showBallError,       \* editor state
    deliveries,          \* the lists passed to onBallDetectionsLoaded, in order
    received,            \* detection records in the lines the reader consumed
    endCause,            \* how the run ended
    endMsg,              \* the message of the error that ended the run
    linesRead,           \* lines consumed from the response body
    cNext,               \* next frame index the response body will carry
    lineLog,             \* the lines the reader took from the response body
    ballDetectionProgress \* editor state, in percent

clientVars == <<cpc, attempted, isLoading, estTimer, abortTimer, isStreaming, aborted,
                accumulated, flushDue, ballDetections, ballDetectionError,
                showBallError, deliveries, received, endCause, endMsg, linesRead, cNext,
                lineLog, ballDetectionProgress>>

\* --- the ResultAggregator ---
VARIABLES
    aggTotal,        \* total_frames of the run, 0 before the run starts
    aggBuffer,       \* the mapping frame_index -> completed record
    aggCursor,       \* the next expected frame index
    aggEmitted,      \* the records emitted so far, in order
    aggOrder         \* the frame indices in the order they completed

aggVars == <<aggTotal, aggBuffer, aggCursor, aggEmitted, aggOrder>>

\* --- the editor's segments and their selection ---
VARIABLES
    segCount,          \* videoData.segments.length, 0 while videoData is null
    aiHighlighting,    \* page state, set from the upload form's checkbox
    selectedSegments,  \* editor state: the selected segment indices, a Set
                       \* in insertion order
    detectionsKnown,   \* the ballDetections prop is defined
    madeTimes          \* times of the detections that have a Made-Basket box

selVars == <<segCount, aiHighlighting, selectedSegments, detectionsKnown, madeTimes>>

\* --- the SceneSegmenter ---
VARIABLES
    segPhase,        \* idle / running / done
    segThreshold,    \* threshold of the run
    segMinLen,       \* min_length_frames of the run
    segPos,          \* frames consumed so far (the index of the next frame)
    segCuts,         \* the accepted boundaries, as frame indices, 0 first
    segOut,          \* the segments returned
    segScores        \* the run has had the scores of the literal example so far

segVars == <<segPhase, segThreshold, segMinLen, segPos, segCuts, segOut, segScores>>

\* --- the DetectionWorkerPool feeding the ResultAggregator ---
VARIABLES
    poolWorkers,     \* max_workers of the run, 0 before the run starts
    poolNext,        \* the next frame index a free worker will pull
    poolInFlight     \* the frame indices whose inference call is running

poolVars == <<poolWorkers, poolNext, poolInFlight>>

\* --- the upload form (VideoUpload, processVideo) ---
VARIABLES
    fpc,             \* idle / uploading (the XHR is in flight) / done
    isProcessing,    \* form state
    videoTooLong,    \* form state
    chosenFile,      \* what the metadata of the last chosen file reports
    videoDuration,   \* the duration processVideo measured, in tenths of a second
    filesChosen,     \* calls of processVideo so far
    xhrSent          \* POST /api/process-video requests sent so far

formVars == <<fpc, isProcessing, videoTooLong, chosenFile, videoDuration, filesChosen,
              xhrSent>>

\* --- the page (EditorPage) and the lifetime of its editor instances ---
VARIABLES
    videoData,               \* page state: the video shown, NoVideo models null
    demoPhase,               \* loadDemoVideo: pending / videoSet / settled
    mounts,                  \* editor instances mounted so far (the last is current)
    duration,                \* editor state of the current instance
    ballDetectionAttempted,  \* ballDetectionAttemptedRef of the current instance
    isBallDetectionLoading,  \* editor state of the current instance
    runs,                    \* the POST /api/detect-balls issued, in order
    storedBy                 \* the run whose call last set ballDetections, 0 if none

pageVars == <<videoData, demoPhase, mounts, duration, ballDetectionAttempted,
              isBallDetectionLoading, runs, storedBy>>

\* --- the export: handleExport of the editor and POST /api/export ---
VARIABLES
    isExporting,     \* editor state
    exportRequest,   \* the body of the POST /api/export in flight, or NoRequest
    exportStatus,    \* status of the last response of the route, 0 before any
    ffmpegRan,       \* the route ran ffmpeg for the last request it answered
    ffmpegSegments   \* the segment list of that run, in the order of the command

exportVars == <<isExporting, exportRequest, exportStatus, ffmpegRan, ffmpegSegments>>

\* --- playback in the editor ---
VARIABLES
    videoCurrentTime,  \* video.currentTime, in hundredths of a second
    currentSegment,    \* editor state
    isPlaying,         \* editor state
    autoSeek           \* what the last handler did: [by, from, target]

playVars == <<videoCurrentTime, currentSegment, isPlaying, autoSeek>>

\* what the page and its runs never touch
clientRunVars == <<cpc, attempted, isLoading, estTimer, abortTimer, isStreaming, aborted,
                   accumulated, flushDue, showBallError, deliveries, received, endCause,
                   endMsg, linesRead, cNext, lineLog, ballDetectionProgress>>
serverRequestVars == <<pc, path, out, streamClosed, cancelled, allDetections, jobVideo,
                       upNext, upTerminal, flaskCalls, upstreamReads, detectorCalls,
                       storeWrites, replayInput, cacheRead, upMalformed, fallbackCause,
                       detectorFailed, uploadResp>>
outsidePageVars == <<serverRequestVars, clientRunVars, aggVars, selVars, segVars,
                     poolVars, formVars, exportVars, playVars>>

nonServerVars == <<clientVars, aggVars, selVars, segVars, poolVars, formVars, pageVars, exportVars, playVars>>
nonClientVars == <<serverVars, aggVars, selVars, segVars, poolVars, formVars, pageVars, exportVars, playVars>>
nonAggVars == <<serverVars, clientVars, selVars, segVars, poolVars, formVars, pageVars, exportVars, playVars>>
nonSelVars == <<serverVars, clientVars, aggVars, segVars, poolVars, formVars, pageVars, exportVars, playVars>>
nonSegVars == <<serverVars, clientVars, aggVars, selVars, poolVars, formVars, pageVars, exportVars, playVars>>
\* a pool run drives the aggregator
nonPoolVars == <<serverVars, clientVars, selVars, segVars, formVars, pageVars, exportVars, playVars>>

nonFormVars == <<serverVars, clientVars, aggVars, selVars, segVars, poolVars, pageVars, exportVars, playVars>>

nonExportVars == <<serverVars, clientVars, aggVars, selVars, segVars, poolVars, formVars, pageVars, playVars>>

nonPlayVars == <<serverVars, clientVars, aggVars, selVars, segVars, poolVars, formVars, pageVars, exportVars>>

vars == <<serverVars, clientVars, aggVars, selVars, segVars, poolVars, formVars, pageVars, exportVars, playVars>>

(* ---------------- records and events ---------------- *)

\* a detection record: the video it was computed for and its frame index
Rec(v, f) == [vid |-> v, frame |-> f]

\* the text of ball_detections.json: a JSON array, one <<video, frame>>
\* entry per record
JSONstringify(recs) == [i \in 1..Len(recs) |-> <<recs[i].vid, recs[i].frame>>]
JSONparse(text) == [i \in 1..Len(text) |-> Rec(text[i][1], text[i][2])]

NotFromLiveRun == [live |-> FALSE, forwarded |-> <<>>]
FromLiveRun(recs) == [live |-> TRUE, forwarded |-> recs]

NoFile == [exists |-> FALSE, data |-> <<>>]
File(d) == [exists |-> TRUE, data |-> d]

\* one NDJSON line of the protocol
\* (a detection event also carries processed and total)
Line(type, v, f, tag, processed, total) ==
    [type |-> type, vid |-> v, frame |-> f, tag |-> tag,
     processed |-> processed, total |-> total]
MetaEv(tag) == Line("meta", 0, 0, tag, 0, 0)
DetectionEv(r, processed, total) == Line("detection", r.vid, r.frame, "", processed, total)
DoneEv(tag) == Line("done", 0, 0, tag, 0, 0)
ErrorEv(msg) == Line("error", 0, 0, msg, 0, 0)
\* a line that is not JSON
MalformedLine == Line("malformed", 0, 0, "", 0, 0)

\* the replay loop: every event carries processed = total = the list's length
DetectionEvents(recs) ==
    [i \in 1..Len(recs) |-> DetectionEv(recs[i], Len(recs), Len(recs))]

\* the records of the detection events among lines
RECURSIVE DetRecs(_)
DetRecs(lines) ==
    IF lines = <<>> THEN <<>>
    ELSE (IF Head(lines).type = "detection"
          THEN <<Rec(Head(lines).vid, Head(lines).frame)>>
          ELSE <<>>) \o DetRecs(Tail(lines))

\* what ball-detector.py leaves in BALL_DETECTIONS_PATH for video v
DetectorOutput(v) == [i \in 1..MaxFrames |-> Rec(v, i - 1)]

\* safeEnqueue: enqueue on the controller; a closed or cancelled controller
\* throws and the error is swallowed
safeEnqueue(q, evs) == IF cancelled \/ streamClosed THEN q ELSE q \o evs

(* ---------------- error classification of the fallback ---------------- *)

Markers == {"Unauthorized", "API key", "RoboflowAPINotAuthorizedError", "ROBOFLOW_API_KEY"}

\* stderr is modelled by the set of marker substrings it contains
errorMsg(stderr) ==
    IF "Unauthorized" \in stderr \/ "API key" \in stderr
       \/ "RoboflowAPINotAuthorizedError" \in stderr
    THEN "invalid-key"
    ELSE IF "ROBOFLOW_API_KEY" \in stderr THEN "key-not-set"
    ELSE "generic"

(* ---------------- initial state ---------------- *)

\* a response of POST /api/process-video: the HTTP status, the scenes array
\* in the body (none / empty / segments) and how scene detection went
Response(status, scenes, sceneDetection) ==
    [status |-> status, scenes |-> scenes, sceneDetection |-> sceneDetection]
NoResponse == Response(0, "none", "notrun")

ServerInit ==
    /\ inputVideo = 0
    /\ ballFile = NoFile
    /\ pc = "idle"
    /\ path = "none"
    /\ out = <<>>
    /\ streamClosed = FALSE
    /\ cancelled = FALSE
    /\ allDetections = <<>>
    /\ jobVideo = 0
    /\ upNext = 0
    /\ upTerminal = "none"
    /\ flaskCalls = 0
    /\ upstreamReads = 0
    /\ detectorCalls = 0
    /\ storeWrites = 0
    /\ replayInput = 0
    /\ cacheRead = "pending"
    /\ upMalformed = 0
    /\ fallbackCause = "none"
    /\ detectorFailed = FALSE
    /\ persistedRun = NotFromLiveRun
    /\ uploadResp = NoResponse

(* ---------------- POST /api/process-video, DELETE /api/cache ---------------- *)

\* process-video: writes input.mp4; the route itself never touches
\* ball_detections.json, only its fallback ball-detector.py run rewrites it.
\* The form does not parse: 500. Flask /process answers: 200 with its scenes.
\* Flask fails: the scene script and the ball detector run, each failure is
\* logged and swallowed, and the answer is 200 with whatever scenes holds
UploadVideo ==
    \E v \in Videos :
        /\ \/ /\ inputVideo' = inputVideo
              /\ ballFile' = ballFile
              /\ persistedRun' = persistedRun
              /\ uploadResp' = Response(500, "none", "notrun")
           \/ /\ inputVideo' = v
              /\ ballFile' = ballFile
              /\ persistedRun' = persistedRun
              /\ uploadResp' = Response(200, "segments", "ok")
           \/ /\ inputVideo' = v
              /\ \E sceneOk \in BOOLEAN, ballOk \in BOOLEAN :
                    /\ ballFile' = IF ballOk
                                   THEN File(JSONstringify(DetectorOutput(v)))
                                   ELSE ballFile
                    /\ persistedRun' = IF ballOk THEN NotFromLiveRun ELSE persistedRun
                    /\ uploadResp' = IF sceneOk
                                     THEN Response(200, "segments", "ok")
                                     ELSE Response(200, "empty", "failed")
        /\ UNCHANGED <<pc, path, out, streamClosed, cancelled, allDetections,
                       jobVideo, upNext, upTerminal, flaskCalls, upstreamReads,
                       detectorCalls, storeWrites, replayInput, cacheRead,
                       upMalformed, fallbackCause, detectorFailed, nonServerVars>>

\* DELETE /api/cache: unlinks input.mp4 and ball_detections.json
DeleteCache ==
    /\ inputVideo # 0 \/ ballFile.exists
    /\ inputVideo' = 0
    /\ ballFile' = NoFile
    /\ persistedRun' = NotFromLiveRun
    /\ UNCHANGED <<pc, path, out, streamClosed, cancelled, allDetections,
                   jobVideo, upNext, upTerminal, flaskCalls, upstreamReads,
                   detectorCalls, storeWrites, replayInput, cacheRead,
                   upMalformed, fallbackCause, detectorFailed, uploadResp,
                   nonServerVars>>

(* ---------------- POST /api/detect-balls ---------------- *)

ResetRequest ==
    /\ cancelled' = FALSE
    /\ allDetections' = <<>>
    /\ jobVideo' = 0
    /\ upNext' = 0
    /\ upTerminal' = "none"
    /\ flaskCalls' = 0
    /\ upstreamReads' = 0
    /\ detectorCalls' = 0
    /\ storeWrites' = 0
    /\ replayInput' = 0
    /\ cacheRead' = "pending"
    /\ upMalformed' = 0
    /\ fallbackCause' = "none"
    /\ detectorFailed' = FALSE

\* a request arrives: stat(input.mp4), 400 with one error line when absent
StartRequest ==
    /\ pc \in {"idle", "closed"}
    /\ ResetRequest
    /\ IF inputVideo = 0
       THEN /\ out' = <<ErrorEv("no-video")>>
            /\ path' = "novideo"
            /\ streamClosed' = TRUE
            /\ pc' = "closed"
       ELSE /\ out' = <<>>
            /\ path' = "none"
            /\ streamClosed' = FALSE
            /\ pc' = "cacheCheck"
    /\ UNCHANGED <<inputVideo, ballFile, uploadResp, persistedRun, nonServerVars>>

\* CachedReplay without its return: the replay falls through to detection
CachedReplay_FallsThrough ==
    /\ pc = "cacheCheck"
    /\ ballFile.exists
    /\ out' = safeEnqueue(out, <<MetaEv("cached")>> \o DetectionEvents(JSONparse(ballFile.data))
                                \o <<DoneEv("cached")>>)
    /\ streamClosed' = TRUE
    /\ path' = "cached"
    /\ replayInput' = inputVideo
    /\ cacheRead' = "hit"
    /\ pc' = "fetch"
    /\ UNCHANGED <<inputVideo, ballFile, cancelled, allDetections, jobVideo, upNext,
                   upTerminal, flaskCalls, upstreamReads, detectorCalls, storeWrites,
                   upMalformed, fallbackCause, detectorFailed, uploadResp,
                   persistedRun, nonServerVars>>

\* (variant: the replay sends its meta event after the detection events)
CachedReplay_MetaAfterDetections ==
    /\ pc = "cacheCheck"
    /\ ballFile.exists
    /\ out' = safeEnqueue(out, DetectionEvents(JSONparse(ballFile.data)) \o <<MetaEv("cached")>>
                                \o <<DoneEv("cached")>>)
    /\ streamClosed' = TRUE
    /\ path' = "cached"
    /\ replayInput' = inputVideo
    /\ cacheRead' = "hit"
    /\ pc' = "closed"
    /\ UNCHANGED <<inputVideo, ballFile, cancelled, allDetections, jobVideo, upNext,
                   upTerminal, flaskCalls, upstreamReads, detectorCalls, storeWrites,
                   upMalformed, fallbackCause, detectorFailed, uploadResp,
                   persistedRun, nonServerVars>>

\* the stored result exists and parses: replay it, close, return
CachedReplay ==
    /\ pc = "cacheCheck"
    /\ ballFile.exists
    /\ out' = safeEnqueue(out, <<MetaEv("cached")>> \o DetectionEvents(JSONparse(ballFile.data))
                                \o <<DoneEv("cached")>>)
    /\ streamClosed' = TRUE
    /\ path' = "cached"
    /\ replayInput' = inputVideo
    /\ cacheRead' = "hit"
    /\ pc' = "closed"
    /\ UNCHANGED <<inputVideo, ballFile, cancelled, allDetections, jobVideo, upNext,
                   upTerminal, flaskCalls, upstreamReads, detectorCalls, storeWrites,
                   upMalformed, fallbackCause, detectorFailed, uploadResp,
                   persistedRun, nonServerVars>>

\* readFile throws: no cache, proceed with detection
CacheMiss ==
    /\ pc = "cacheCheck"
    /\ ~ballFile.exists
    /\ cacheRead' = "miss"
    /\ pc' = "fetch"
    /\ UNCHANGED <<inputVideo, ballFile, path, out, streamClosed, cancelled,
                   allDetections, jobVideo, upNext, upTerminal, flaskCalls,
                   upstreamReads, detectorCalls, storeWrites, replayInput,
                   upMalformed, fallbackCause, detectorFailed, uploadResp,
                   persistedRun, nonServerVars>>

\* catch (flaskError): announce the fallback and go on to the detector script
EnterFallback ==
    /\ out' = safeEnqueue(out, <<MetaEv("fallback")>>)
    /\ path' = "fallback"
    /\ pc' = "detector"

\* undiciFetch of Flask /balls/stream: a body to proxy, or a throw
\* (connection refused, non-ok status, no body)
FetchFlask ==
    /\ pc = "fetch"
    /\ flaskCalls' = flaskCalls + 1
    /\ \/ /\ inputVideo # 0
          /\ jobVideo' = inputVideo
          /\ path' = "live"
          /\ pc' = "proxy"
          /\ out' = out
          /\ fallbackCause' = fallbackCause
       \/ /\ EnterFallback
          /\ jobVideo' = jobVideo
          /\ fallbackCause' \in {"unreachable", "status401", "status500"}
    /\ UNCHANGED <<inputVideo, ballFile, streamClosed, cancelled, allDetections,
                   upNext, upTerminal, upstreamReads, detectorCalls, storeWrites,
                   replayInput, cacheRead,
                   upMalformed, detectorFailed, uploadResp, persistedRun, nonServerVars>>

\* the lines the upstream stream can carry next: frames in increasing order,
\* nothing after its terminal line
\* (a detection line counts the upstream's emissions in processed), and
\* now and then a line that is not JSON
UpstreamLines ==
    IF upTerminal # "none" THEN {}
    ELSE (IF upstreamReads = 0 THEN {MetaEv("live")} ELSE {})
         \cup (IF upNext < MaxFrames
               THEN {DetectionEv(Rec(jobVideo, upNext), upNext + 1, MaxFrames)}
               ELSE {})
         \cup (IF upMalformed < MaxMalformed THEN {MalformedLine} ELSE {})
         \cup {DoneEv(""), ErrorEv("upstream")}

\* one line of the upstream body: record a detection, forward the line
ProxyLine ==
    /\ pc = "proxy"
    /\ \E line \in UpstreamLines :
        /\ upstreamReads' = upstreamReads + 1
        /\ allDetections' = IF line.type = "detection"
                            THEN Append(allDetections, Rec(line.vid, line.frame))
                            ELSE allDetections
        /\ upNext' = IF line.type = "detection" THEN upNext + 1 ELSE upNext
        /\ upTerminal' = IF line.type \in {"done", "error"} THEN line.type ELSE upTerminal
        /\ upMalformed' = IF line.type = "malformed" THEN upMalformed + 1 ELSE upMalformed
        /\ out' = safeEnqueue(out, <<line>>)
    /\ UNCHANGED <<inputVideo, ballFile, pc, path, streamClosed, cancelled, jobVideo,
                   flaskCalls, detectorCalls, storeWrites, replayInput, cacheRead,
                   fallbackCause, detectorFailed, uploadResp, persistedRun, nonServerVars>>

\* the upstream body throws while it is read
UpstreamFails ==
    /\ pc = "proxy"
    /\ upstreamReads' = upstreamReads + 1
    /\ EnterFallback
    /\ fallbackCause' = "midstream"
    /\ UNCHANGED <<inputVideo, ballFile, streamClosed, cancelled, allDetections,
                   jobVideo, upNext, upTerminal, flaskCalls, detectorCalls,
                   storeWrites, replayInput, cacheRead,
                   upMalformed, detectorFailed, uploadResp, persistedRun, nonServerVars>>

\* (variant: the last accumulated record is left out of the file)
UpstreamEnds_DropsLast ==
    /\ pc = "proxy"
    /\ upstreamReads' = upstreamReads + 1
    /\ IF Len(allDetections) > 0
       THEN \/ /\ ballFile' = File(JSONstringify(SubSeq(allDetections, 1,
                                             Len(allDetections) - 1)))
               /\ storeWrites' = storeWrites + 1
               /\ persistedRun' = IF ~cancelled
                                  THEN FromLiveRun(DetRecs(out))
                                  ELSE NotFromLiveRun
            \/ /\ ballFile' = ballFile
               /\ storeWrites' = storeWrites
               /\ persistedRun' = persistedRun
       ELSE /\ ballFile' = ballFile
            /\ storeWrites' = storeWrites
            /\ persistedRun' = persistedRun
    /\ streamClosed' = TRUE
    /\ pc' = "closed"
    /\ UNCHANGED <<inputVideo, path, out, cancelled, allDetections, jobVideo, upNext,
                   upTerminal, flaskCalls, detectorCalls, replayInput, cacheRead,
                   upMalformed, fallbackCause, detectorFailed, uploadResp,
                   nonServerVars>>

\* the upstream body ends: persist what was accumulated (best effort), close
UpstreamEnds ==
    /\ pc = "proxy"
    /\ upstreamReads' = upstreamReads + 1
    /\ IF Len(allDetections) > 0
       THEN \/ /\ ballFile' = File(JSONstringify(allDetections))
               /\ storeWrites' = storeWrites + 1
               /\ persistedRun' = IF ~cancelled
                                  THEN FromLiveRun(DetRecs(out))
                                  ELSE NotFromLiveRun
            \/ /\ ballFile' = ballFile
               /\ storeWrites' = storeWrites
               /\ persistedRun' = persistedRun
       ELSE /\ ballFile' = ballFile
            /\ storeWrites' = storeWrites
            /\ persistedRun' = persistedRun
    /\ streamClosed' = TRUE
    /\ pc' = "closed"
    /\ UNCHANGED <<inputVideo, path, out, cancelled, allDetections, jobVideo, upNext,
                   upTerminal, flaskCalls, detectorCalls, replayInput, cacheRead,
                   upMalformed, fallbackCause, detectorFailed, uploadResp,
                   nonServerVars>>

\* execAsync(ball-detector.py): it writes BALL_DETECTIONS_PATH, or it fails
\* and the failure text is classified into one error event
RunDetector ==
    /\ pc = "detector"
    /\ detectorCalls' = detectorCalls + 1
    /\ \/ /\ inputVideo # 0
          /\ ballFile' = File(JSONstringify(DetectorOutput(inputVideo)))
          /\ persistedRun' = NotFromLiveRun
          /\ pc' = "readResult"
          /\ out' = out
          /\ streamClosed' = streamClosed
          /\ detectorFailed' = detectorFailed
       \/ \E stderr \in SUBSET Markers :
             /\ out' = safeEnqueue(out, <<ErrorEv(errorMsg(stderr))>>)
             /\ ballFile' = ballFile
             /\ persistedRun' = persistedRun
             /\ streamClosed' = TRUE
             /\ pc' = "closed"
             /\ detectorFailed' = TRUE
    /\ UNCHANGED <<inputVideo, path, cancelled, allDetections, jobVideo, upNext,
                   upTerminal, flaskCalls, upstreamReads, storeWrites, replayInput, cacheRead,
                   upMalformed, fallbackCause, uploadResp, nonServerVars>>

\* readFile of the detector's result: replay it and finish, or (file gone)
\* the generic error
ReadResult ==
    /\ pc = "readResult"
    /\ out' = IF ballFile.exists
              THEN safeEnqueue(out, DetectionEvents(JSONparse(ballFile.data)) \o <<DoneEv("")>>)
              ELSE safeEnqueue(out, <<ErrorEv(errorMsg({}))>>)
    /\ detectorFailed' = ~ballFile.exists
    /\ streamClosed' = TRUE
    /\ pc' = "closed"
    /\ UNCHANGED <<inputVideo, ballFile, path, cancelled, allDetections, jobVideo,
                   upNext, upTerminal, flaskCalls, upstreamReads, detectorCalls,
                   storeWrites, replayInput, cacheRead,
                   upMalformed, fallbackCause, uploadResp, persistedRun, nonServerVars>>

\* the caller aborts or disconnects; the stream has no cancel handler, so
\* nothing but the controller's state changes
Cancel ==
    /\ pc \in {"cacheCheck", "fetch", "proxy", "detector", "readResult"}
    /\ ~cancelled
    /\ cancelled' = TRUE
    /\ UNCHANGED <<inputVideo, ballFile, pc, path, out, streamClosed, allDetections,
                   jobVideo, upNext, upTerminal, flaskCalls, upstreamReads,
                   detectorCalls, storeWrites, replayInput, cacheRead,
                   upMalformed, fallbackCause, detectorFailed, uploadResp,
                   persistedRun, nonServerVars>>

(* ======================= the editor's detection run ======================= *)

\* lines one response body may carry in this model
MaxLines == 5

\* a value the estimate interval sets: between 0 and 99.9
EstimatedProgress == 50

TimeoutMsg == "Ball detection timed out. Try again with a shorter video."
FailedMsg == "Ball detection failed. Check the server logs."

Undefined == [set |-> FALSE, data |-> <<>>]
Loaded(d) == [set |-> TRUE, data |-> d]

NoLine == Line("none", 0, 0, "", 0, 0)

hasBallDetections == ballDetections.set /\ Len(ballDetections.data) > 0

ClientInit ==
    /\ cpc = "mounted"
    /\ attempted = FALSE
    /\ isLoading = FALSE
    /\ estTimer = FALSE
    /\ abortTimer = FALSE
    /\ isStreaming = FALSE
    /\ aborted = FALSE
    /\ accumulated = <<>>
    /\ flushDue = FALSE
    /\ ballDetections = Undefined
    /\ ballDetectionError = ""
    /\ showBallError = FALSE
    /\ deliveries = <<>>
    /\ received = <<>>
    /\ endCause = "none"
    /\ endMsg = ""
    /\ linesRead = 0
    /\ cNext = 0
    /\ lineLog = <<>>
    /\ ballDetectionProgress = 0

\* the next complete line of the response body: any event of the protocol
\* (an error event carries a non-empty message) or a line that does not parse
ResponseLines ==
    IF linesRead >= MaxLines THEN {}
    ELSE {MetaEv("live"), MetaEv("fallback"), DoneEv(""), ErrorEv("backend error"),
          MalformedLine}
         \cup (IF cNext < MaxFrames THEN {DetectionEv(Rec(1, cNext), cNext + 1, MaxFrames)} ELSE {})

\* what the buffer can hold, unterminated, when the body ends
LeftoverLines ==
    {NoLine, MalformedLine, DoneEv(""), ErrorEv("backend error")}
    \cup (IF cNext < MaxFrames THEN {DetectionEv(Rec(1, cNext), cNext + 1, MaxFrames)} ELSE {})

\* handleBallDetectionsLoaded: the page stores the list, and the error if any
onBallDetectionsLoaded(detections, error) ==
    /\ ballDetections' = Loaded(detections)
    /\ ballDetectionError' = IF error # "" THEN error ELSE ballDetectionError
    /\ deliveries' = Append(deliveries, detections)

\* (variant: the finally block leaves the estimate interval and the progress)
Finally_KeepsEstimate ==
    /\ abortTimer' = FALSE
    /\ estTimer' = estTimer
    /\ isLoading' = FALSE
    /\ ballDetectionProgress' = ballDetectionProgress
    /\ cpc' = "finished"

\* the finally block of startBallDetection
Finally ==
    /\ abortTimer' = FALSE
    /\ estTimer' = FALSE
    /\ isLoading' = FALSE
    /\ ballDetectionProgress' = 0
    /\ cpc' = "finished"

\* the effect on [duration] starts the run once: guard, refs reset, abort
\* timer armed, fetch issued
StartDetection ==
    /\ cpc = "mounted"
    /\ ~hasBallDetections /\ ~isLoading /\ ~attempted
    /\ attempted' = TRUE
    /\ isLoading' = TRUE
    /\ accumulated' = <<>>
    /\ flushDue' = FALSE
    /\ isStreaming' = FALSE
    /\ abortTimer' = TRUE
    /\ ballDetectionProgress' = 0
    /\ cpc' = "fetching"
    /\ UNCHANGED <<estTimer, aborted, ballDetections, ballDetectionError, showBallError,
                   deliveries, received, endCause, endMsg, linesRead, cNext,
                   lineLog, nonClientVars>>

\* fetch resolves with a body: the read loop starts
FetchResponds ==
    /\ cpc = "fetching"
    /\ cpc' = "reading"
    /\ UNCHANGED <<attempted, isLoading, estTimer, abortTimer, isStreaming, aborted,
                   accumulated, flushDue, ballDetections, ballDetectionError,
                   showBallError, deliveries, received, endCause, endMsg, linesRead,
                   cNext, lineLog, ballDetectionProgress, nonClientVars>>

\* the catch block: report what was accumulated with the message
Catch(cause, message) ==
    /\ onBallDetectionsLoaded(accumulated, message)
    /\ showBallError' = TRUE
    /\ endCause' = cause
    /\ endMsg' = message
    /\ Finally

\* fetch rejects, the response has no body, or reader.read() rejects
RunThrows ==
    /\ cpc \in {"fetching", "reading"}
    /\ Catch("exception", FailedMsg)
    /\ UNCHANGED <<attempted, isStreaming, aborted, accumulated, flushDue, received,
                   linesRead, cNext, lineLog, nonClientVars>>

\* the 10-minute timer aborts the fetch: the pending fetch or read rejects
AbortTimeout ==
    /\ cpc \in {"fetching", "reading"}
    /\ abortTimer
    /\ aborted' = TRUE
    /\ Catch("abortTimeout", TimeoutMsg)
    /\ UNCHANGED <<attempted, isStreaming, accumulated, flushDue, received, linesRead,
                   cNext, lineLog, nonClientVars>>

\* more than 500 ms have passed since lastFlushRef
TimePasses ==
    /\ cpc \in {"fetching", "reading"}
    /\ ~flushDue
    /\ flushDue' = TRUE
    /\ UNCHANGED <<cpc, attempted, isLoading, estTimer, abortTimer, isStreaming, aborted,
                   accumulated, ballDetections, ballDetectionError, showBallError,
                   deliveries, received, endCause, endMsg, linesRead, cNext,
                   lineLog, ballDetectionProgress, nonClientVars>>

\* the interval started by startEstimatedProgress fires: an estimate below 100
EstimateTick ==
    /\ estTimer
    /\ ballDetectionProgress' = EstimatedProgress
    /\ UNCHANGED <<cpc, attempted, isLoading, estTimer, abortTimer, isStreaming, aborted,
                   accumulated, flushDue, ballDetections, ballDetectionError,
                   showBallError, deliveries, received, endCause, endMsg, linesRead,
                   cNext, lineLog, nonClientVars>>

\* a meta event: the fallback starts the estimated progress, anything else
\* marks the run as streaming and stops the estimate
OnMeta(line) ==
    /\ IF line.tag = "fallback"
       THEN estTimer' = TRUE /\ isStreaming' = isStreaming
       ELSE estTimer' = FALSE /\ isStreaming' = TRUE
    /\ UNCHANGED <<cpc, isLoading, abortTimer, accumulated, flushDue, ballDetections,
                   ballDetectionError, showBallError, deliveries, received, endCause,
                   endMsg, ballDetectionProgress>>

\* an error event whose records are dropped instead of reported
OnErrorEvent_DropsPartial(line) ==
    /\ onBallDetectionsLoaded(<<>>, line.tag)
    /\ showBallError' = TRUE
    /\ endCause' = "errorEvent"
    /\ endMsg' = line.tag
    /\ Finally
    /\ UNCHANGED <<isStreaming, accumulated, flushDue, received>>

\* an error event: report the accumulated records with the message, return
OnErrorEvent(line) ==
    /\ onBallDetectionsLoaded(accumulated, line.tag)
    /\ showBallError' = TRUE
    /\ endCause' = "errorEvent"
    /\ endMsg' = line.tag
    /\ Finally
    /\ UNCHANGED <<isStreaming, accumulated, flushDue, received>>

\* (variant: every detection event is reported at once)
OnDetection_FlushesAlways(line) ==
    /\ accumulated' = Append(accumulated, Rec(line.vid, line.frame))
    /\ received' = Append(received, Rec(line.vid, line.frame))
    /\ flushDue' = FALSE
    /\ onBallDetectionsLoaded(accumulated', "")
    /\ ballDetectionProgress' = IF isStreaming /\ line.total > 0
                                 THEN (line.processed * 100) \div line.total
                                 ELSE ballDetectionProgress
    /\ UNCHANGED <<cpc, isLoading, estTimer, abortTimer, isStreaming, showBallError,
                   endCause, endMsg>>

\* a detection event: accumulate, and flush a copy when 500 ms have passed
OnDetection(line) ==
    /\ accumulated' = Append(accumulated, Rec(line.vid, line.frame))
    /\ received' = Append(received, Rec(line.vid, line.frame))
    /\ IF flushDue
       THEN /\ flushDue' = FALSE
            /\ onBallDetectionsLoaded(accumulated', "")
       ELSE UNCHANGED <<flushDue, ballDetections, ballDetectionError, deliveries>>
    /\ ballDetectionProgress' = IF isStreaming /\ line.total > 0
                                 THEN (line.processed * 100) \div line.total
                                 ELSE ballDetectionProgress
    /\ UNCHANGED <<cpc, isLoading, estTimer, abortTimer, isStreaming, showBallError,
                   endCause, endMsg>>

\* a done event: report a copy of everything accumulated
OnDone ==
    /\ onBallDetectionsLoaded(accumulated, "")
    /\ ballDetectionProgress' = 100
    /\ UNCHANGED <<cpc, isLoading, estTimer, abortTimer, isStreaming, accumulated,
                   flushDue, showBallError, received, endCause, endMsg>>

\* (variant: a line that does not parse throws out of the read loop)
OnMalformed_Throws ==
    /\ Catch("exception", FailedMsg)
    /\ UNCHANGED <<isStreaming, accumulated, flushDue, received>>

\* a line that does not parse is skipped
OnMalformed ==
    UNCHANGED <<cpc, isLoading, estTimer, abortTimer, isStreaming, accumulated,
                flushDue, ballDetections, ballDetectionError, showBallError,
                deliveries, received, endCause, endMsg, ballDetectionProgress>>

\* one complete line of a chunk goes through the line loop
ReadLine ==
    /\ cpc = "reading"
    /\ \E line \in ResponseLines :
        /\ linesRead' = linesRead + 1
        /\ lineLog' = Append(lineLog, line)
        /\ cNext' = IF line.type = "detection" THEN cNext + 1 ELSE cNext
        /\ \/ line.type = "meta" /\ OnMeta(line)
           \/ line.type = "error" /\ OnErrorEvent(line)
           \/ line.type = "detection" /\ OnDetection(line)
           \/ line.type = "done" /\ OnDone
           \/ line.type = "malformed" /\ OnMalformed
    /\ UNCHANGED <<attempted, aborted, nonClientVars>>

\* after the read loop: the unterminated rest of the buffer, then the final
\* report of everything accumulated
AfterLoop(cause) ==
    \E left \in LeftoverLines :
        /\ lineLog' = IF left = NoLine THEN lineLog ELSE Append(lineLog, left)
        /\ accumulated' = IF left.type = "detection"
                          THEN Append(accumulated, Rec(left.vid, left.frame))
                          ELSE accumulated
        /\ received' = IF left.type = "detection"
                       THEN Append(received, Rec(left.vid, left.frame))
                       ELSE received
        /\ IF left.type = "error"
           THEN /\ onBallDetectionsLoaded(accumulated', left.tag)
                /\ showBallError' = TRUE
                /\ endCause' = "errorEvent"
                /\ endMsg' = left.tag
           ELSE /\ onBallDetectionsLoaded(accumulated', "")
                /\ showBallError' = showBallError
                /\ endCause' = cause
                /\ endMsg' = ""
        /\ Finally

\* reader.read() reports done: the body ended
EndOfStream ==
    /\ cpc = "reading"
    /\ AfterLoop("eof")
    /\ UNCHANGED <<attempted, isStreaming, aborted, flushDue, linesRead, cNext,
                   nonClientVars>>

\* no chunk for more than 5 minutes: the timer cancels the reader and resolves
\* the race with done
IdleTimeout ==
    /\ cpc = "reading"
    /\ AfterLoop("idleTimeout")
    /\ UNCHANGED <<attempted, isStreaming, aborted, flushDue, linesRead, cNext,
                   nonClientVars>>

ClientNext ==
    \/ StartDetection
    \/ FetchResponds
    \/ RunThrows
    \/ AbortTimeout
    \/ TimePasses
    \/ EstimateTick
    \/ ReadLine
    \/ EndOfStream
    \/ IdleTimeout

(* ======================= the upload form ======================= *)

\* files one form instance is given in this model
MaxFiles == 3

\* editor instances one page mounts in this model
MaxMounts == 2

MAX_VIDEO_DURATION_SEC == 120

\* what loading a file's metadata can report: an error event, or
\* video.duration as NaN, as Infinity or as a number of tenths of a second
Metadata(kind, tenths) == [kind |-> kind, tenths |-> tenths]
NoFileChosen == Metadata("none", 0)
Files ==
    {Metadata("error", 0), Metadata("nan", 0), Metadata("infinity", 0)}
    \cup {Metadata("number", t) : t \in {0, 5, 600, 1199, 1200, 1201, 3000}}

\* Infinity, as a duration in tenths of a second
InfiniteDuration == 1000000

\* getVideoDuration: video.duration when it is truthy and positive, 60
\* otherwise and on an error
getVideoDuration(file) ==
    IF file.kind = "error" THEN 600
    ELSE IF file.kind = "nan" THEN 600
    ELSE IF file.kind = "infinity" THEN InfiniteDuration
    ELSE IF file.tenths > 0 THEN file.tenths
    ELSE 600

FormInit ==
    /\ fpc = "idle"
    /\ isProcessing = FALSE
    /\ videoTooLong = FALSE
    /\ chosenFile = NoFileChosen
    /\ videoDuration = 0
    /\ filesChosen = 0
    /\ xhrSent = 0

\* (variant: the request is sent whatever the duration)
processVideo_NoLimit ==
    /\ fpc = "idle"
    /\ filesChosen < MaxFiles
    /\ \E file \in Files :
        /\ chosenFile' = file
        /\ videoDuration' = getVideoDuration(file)
        /\ videoTooLong' = FALSE
        /\ isProcessing' = TRUE
        /\ xhrSent' = xhrSent + 1
        /\ fpc' = "uploading"
    /\ filesChosen' = filesChosen + 1
    /\ UNCHANGED nonFormVars

\* processVideo(file), up to xhr.send: a file is dropped or selected while
\* the drop zone is shown
processVideo ==
    /\ fpc = "idle"
    /\ filesChosen < MaxFiles
    /\ \E file \in Files :
        /\ chosenFile' = file
        /\ videoDuration' = getVideoDuration(file)
        /\ IF videoDuration' > MAX_VIDEO_DURATION_SEC * 10
           THEN /\ videoTooLong' = TRUE
                /\ UNCHANGED <<isProcessing, xhrSent, fpc>>
           ELSE /\ videoTooLong' = FALSE
                /\ isProcessing' = TRUE
                /\ xhrSent' = xhrSent + 1
                /\ fpc' = "uploading"
    /\ filesChosen' = filesChosen + 1
    /\ UNCHANGED nonFormVars

\* the response is ok: onVideoProcessed, the page replaces the form by the editor
UploadSucceeds ==
    /\ fpc = "uploading"
    /\ fpc' = "done"
    /\ UNCHANGED <<isProcessing, videoTooLong, chosenFile, videoDuration, filesChosen,
                   xhrSent, nonFormVars>>

\* the XHR fails or the response is not ok: alert, back to the drop zone
UploadFails ==
    /\ fpc = "uploading"
    /\ isProcessing' = FALSE
    /\ fpc' = "idle"
    /\ UNCHANGED <<videoTooLong, chosenFile, videoDuration, filesChosen, xhrSent,
                   nonFormVars>>

FormNext ==
    \/ processVideo
    \/ UploadSucceeds
    \/ UploadFails

(* ======================= the editor's segment selection ======================= *)

\* most segments of a processed video
MaxSegments == 3
\* every segment of the model lasts SegLen seconds: segment i is
\* [i * SegLen, (i + 1) * SegLen)
SegLen == 2

\* a JavaScript Set of numbers: its elements in insertion order
SetHas(set, x) == \E k \in 1..Len(set) : set[k] = x
SetAdd(set, x) == IF SetHas(set, x) THEN set ELSE Append(set, x)
SetDelete(set, x) == SelectSeq(set, LAMBDA y : y # x)
SetElements(set) == {set[k] : k \in 1..Len(set)}

SegStart(i) == i * SegLen
SegEnd(i) == (i + 1) * SegLen
SegIndices == 0..(segCount - 1)

SelInit ==
    /\ segCount = 0
    /\ aiHighlighting = TRUE
    /\ selectedSegments = <<>>
    /\ detectionsKnown = FALSE
    /\ madeTimes = {}

\* onVideoProcessed: the page stores the video and the checkbox value, the
\* editor mounts with every segment selected
VideoProcessed ==
    /\ segCount = 0
    /\ \E n \in 1..MaxSegments, ai \in BOOLEAN :
        /\ segCount' = n
        /\ aiHighlighting' = ai
        /\ selectedSegments' = [k \in 1..n |-> k - 1]
    /\ UNCHANGED <<detectionsKnown, madeTimes, nonSelVars>>

\* handleBallDetectionsLoaded: the page stores the list, which is the one
\* stored before or that one with the next record; nothing in the editor
\* reads aiHighlighting or changes the selection on new detections
DetectionsLoaded ==
    /\ segCount > 0
    /\ \E times \in {madeTimes} \cup
                     {madeTimes \cup {t} : t \in 0..(segCount * SegLen - 1)} :
        /\ ~detectionsKnown \/ times # madeTimes
        /\ madeTimes' = times
    /\ detectionsKnown' = TRUE
    /\ UNCHANGED <<segCount, aiHighlighting, selectedSegments, nonSelVars>>

\* (variant: a modifier-click always removes a selected segment)
ClickToggle_PlainDelete ==
    /\ segCount > 0
    /\ \E index \in SegIndices :
        selectedSegments' =
            IF SetHas(selectedSegments, index)
            THEN SetDelete(selectedSegments, index)
            ELSE SetAdd(selectedSegments, index)
    /\ UNCHANGED <<segCount, aiHighlighting, detectionsKnown, madeTimes, nonSelVars>>

\* modifier-click on a segment of the timeline
ClickToggle ==
    /\ segCount > 0
    /\ \E index \in SegIndices :
        selectedSegments' =
            IF SetHas(selectedSegments, index)
            THEN (IF Len(selectedSegments) = segCount
                  THEN <<index>>
                  ELSE SetDelete(selectedSegments, index))
            ELSE SetAdd(selectedSegments, index)
    /\ UNCHANGED <<segCount, aiHighlighting, detectionsKnown, madeTimes, nonSelVars>>

\* the segment's checkbox changes to checked
CheckboxChange ==
    /\ segCount > 0
    /\ \E index \in SegIndices, checked \in BOOLEAN :
        selectedSegments' =
            IF checked
            THEN SetAdd(selectedSegments, index)
            ELSE (IF Len(selectedSegments) = segCount
                  THEN <<index>>
                  ELSE SetDelete(selectedSegments, index))
    /\ UNCHANGED <<segCount, aiHighlighting, detectionsKnown, madeTimes, nonSelVars>>

\* handleReset: the page drops the video and the detections, the editor unmounts
EditorReset ==
    /\ segCount > 0
    /\ segCount' = 0
    /\ selectedSegments' = <<>>
    /\ detectionsKnown' = FALSE
    /\ madeTimes' = {}
    /\ UNCHANGED <<aiHighlighting, nonSelVars>>

SelNext ==
    \/ VideoProcessed
    \/ DetectionsLoaded
    \/ ClickToggle
    \/ CheckboxChange
    \/ EditorReset

(* ======================= the SceneSegmenter ======================= *)

\* most frames of a segmented video; frames are 1 second apart
MaxSegFrames == 10
\* largest min_length_frames
MaxMinLen == 3

Scores == {10, 80, 90}
Thresholds == {70, 85}

\* the scores of frames 1..9 of the literal example (frame 0 has none)
ExampleScores == <<10, 80, 10, 10, 90, 10, 10, 10, 10>>

Segment(start, end) == [start |-> start, end |-> end]

SegInit ==
    /\ segPhase = "idle"
    /\ segThreshold = 0
    /\ segMinLen = 0
    /\ segPos = 0
    /\ segCuts = <<>>
    /\ segOut = <<>>
    /\ segScores = FALSE

\* segment(frames, threshold, min_length_frames): the first frame has no
\* score and the first segment starts at time 0
SegBegin ==
    /\ segPhase = "idle"
    /\ \E th \in Thresholds, ml \in 1..MaxMinLen :
        /\ segThreshold' = th
        /\ segMinLen' = ml
        /\ segScores' = (th = 70 /\ ml = 3)
    /\ segPos' = 1
    /\ segCuts' = <<0>>
    /\ segPhase' = "running"
    /\ UNCHANGED <<segOut, nonSegVars>>

\* (variant: every candidate boundary is accepted)
SegFrame_NoMinLength ==
    /\ segPhase = "running"
    /\ segPos < MaxSegFrames
    /\ \E score \in Scores :
        /\ segCuts' = IF score > segThreshold THEN Append(segCuts, segPos) ELSE segCuts
        /\ segScores' = (segScores /\ segPos <= Len(ExampleScores)
                                   /\ score = ExampleScores[segPos])
    /\ segPos' = segPos + 1
    /\ UNCHANGED <<segPhase, segThreshold, segMinLen, segOut, nonSegVars>>

\* the next frame: a candidate when its score exceeds the threshold,
\* dropped when it is less than min_length_frames after the previous
\* accepted boundary
SegFrame ==
    /\ segPhase = "running"
    /\ segPos < MaxSegFrames
    /\ \E score \in Scores :
        /\ segCuts' = IF score > segThreshold
                         /\ segPos - segCuts[Len(segCuts)] >= segMinLen
                      THEN Append(segCuts, segPos)
                      ELSE segCuts
        /\ segScores' = (segScores /\ segPos <= Len(ExampleScores)
                                   /\ score = ExampleScores[segPos])
    /\ segPos' = segPos + 1
    /\ UNCHANGED <<segPhase, segThreshold, segMinLen, segOut, nonSegVars>>

\* (variant: the last segment ends at the last frame's timestamp)
SegFinish_EndsAtLastFrame ==
    /\ segPhase = "running"
    /\ segOut' = [i \in 1..Len(segCuts) |->
                    Segment(segCuts[i],
                            IF i < Len(segCuts) THEN segCuts[i + 1] ELSE segPos - 1)]
    /\ segPhase' = "done"
    /\ UNCHANGED <<segThreshold, segMinLen, segPos, segCuts, segScores, nonSegVars>>

\* the video ends: each accepted boundary starts a segment, and the last
\* segment ends at the duration
SegFinish ==
    /\ segPhase = "running"
    /\ segOut' = [i \in 1..Len(segCuts) |->
                    Segment(segCuts[i],
                            IF i < Len(segCuts) THEN segCuts[i + 1] ELSE segPos)]
    /\ segPhase' = "done"
    /\ UNCHANGED <<segThreshold, segMinLen, segPos, segCuts, segScores, nonSegVars>>

SegNext ==
    \/ SegBegin
    \/ SegFrame
    \/ SegFinish

(* ======================= the ResultAggregator ======================= *)

\* largest total_frames of an aggregation run
MaxTotalFrames == 4

\* a completed record; a frame whose inference failed is kept as an empty record
AggRec(i, ok) == [frame |-> i, boxes |-> IF ok THEN "boxes" ELSE "empty"]

AggInit ==
    /\ aggTotal = 0
    /\ aggBuffer = {}
    /\ aggCursor = 0
    /\ aggEmitted = <<>>
    /\ aggOrder = <<>>

\* aggregate(total_frames, ...): a run over frames 0..total_frames-1 begins
AggStart ==
    /\ aggTotal = 0
    /\ \E n \in 1..MaxTotalFrames : aggTotal' = n
    /\ UNCHANGED <<aggBuffer, aggCursor, aggEmitted, aggOrder, nonAggVars>>

\* while the mapping contains the cursor's index: pop it, emit it, advance
RECURSIVE Drain(_, _, _)
Drain(buffer, cursor, emitted) ==
    IF \E r \in buffer : r.frame = cursor
    THEN LET r == CHOOSE x \in buffer : x.frame = cursor
         IN Drain(buffer \ {r}, cursor + 1, Append(emitted, r))
    ELSE [buffer |-> buffer, cursor |-> cursor, emitted |-> emitted]

\* an aggregator that emits each record as it completes
OnCompletion_NoReorder(r) ==
    [buffer |-> aggBuffer, cursor |-> aggCursor + 1, emitted |-> Append(aggEmitted, r)]

\* on each completion: insert into the mapping, then drain from the cursor
OnCompletion(r) == Drain(aggBuffer \cup {r}, aggCursor, aggEmitted)

\* some frame still in flight completes, with boxes or as a failure
Complete ==
    /\ aggTotal > 0
    /\ \E i \in 0..(aggTotal - 1) : \E ok \in BOOLEAN :
        /\ \A k \in 1..Len(aggOrder) : aggOrder[k] # i
        /\ LET after == OnCompletion(AggRec(i, ok))
           IN /\ aggBuffer' = after.buffer
              /\ aggCursor' = after.cursor
              /\ aggEmitted' = after.emitted
        /\ aggOrder' = Append(aggOrder, i)
    /\ UNCHANGED <<aggTotal, nonAggVars>>

AggNext ==
    \/ AggStart
    \/ Complete

(* ======================= the DetectionWorkerPool ======================= *)

\* largest max_workers of a pool run
MaxWorkers == 2

PoolInit ==
    /\ poolWorkers = 0
    /\ poolNext = 0
    /\ poolInFlight = {}

\* submit(frames, max_workers, ...) with its completions consumed by
\* aggregate(total_frames, ...)
PoolStart ==
    /\ aggTotal = 0
    /\ \E n \in 1..MaxTotalFrames, w \in 1..MaxWorkers :
        /\ aggTotal' = n
        /\ poolWorkers' = w
    /\ UNCHANGED <<aggBuffer, aggCursor, aggEmitted, aggOrder, poolNext, poolInFlight,
                   nonPoolVars>>

\* (variant: a pool that starts a call for every frame at once)
PoolPull_NoLimit ==
    /\ aggTotal > 0
    /\ poolNext < aggTotal
    /\ poolInFlight' = poolInFlight \cup {poolNext}
    /\ poolNext' = poolNext + 1
    /\ UNCHANGED <<aggVars, poolWorkers, nonPoolVars>>

\* a free worker pulls the next frame and issues its inference call
PoolPull ==
    /\ aggTotal > 0
    /\ poolNext < aggTotal
    /\ Cardinality(poolInFlight) < poolWorkers
    /\ poolInFlight' = poolInFlight \cup {poolNext}
    /\ poolNext' = poolNext + 1
    /\ UNCHANGED <<aggVars, poolWorkers, nonPoolVars>>

\* one of the running calls returns, with boxes or as a failure, and the
\* aggregator takes the completion
PoolComplete ==
    /\ \E i \in poolInFlight : \E ok \in BOOLEAN :
        /\ poolInFlight' = poolInFlight \ {i}
        /\ LET after == OnCompletion(AggRec(i, ok))
           IN /\ aggBuffer' = after.buffer
              /\ aggCursor' = after.cursor
              /\ aggEmitted' = after.emitted
        /\ aggOrder' = Append(aggOrder, i)
    /\ UNCHANGED <<aggTotal, poolWorkers, poolNext, nonPoolVars>>

PoolNext ==
    \/ PoolStart
    \/ PoolPull
    \/ PoolComplete

(* ---------------- the page and its editor instances ---------------- *)

NoVideo == 0
DemoVideo == MaxVideos + 1
Durations == 0..2

PageInit ==
    /\ videoData = NoVideo
    /\ demoPhase = "pending"
    /\ mounts = 0
    /\ duration = 0
    /\ ballDetectionAttempted = FALSE
    /\ isBallDetectionLoading = FALSE
    /\ runs = <<>>
    /\ storedBy = 0

\* a POST /api/detect-balls in flight: the video and the editor instance it
\* was started for, how many records it has accumulated, whether it has seen
\* done, whether startBallDetection is still running, and whether it ended
\* with an error message
Run(v, m) ==
    [video |-> v, mount |-> m, acc |-> 0, done |-> FALSE, open |-> TRUE, failed |-> FALSE]

\* accumulatedDetectionsRef of run r
RunRecords(run) == [i \in 1..run.acc |-> Rec(run.video, i - 1)]

\* handleBallDetectionsLoaded: the page stores the list, and the error if any
handleBallDetectionsLoaded(detections, error) ==
    /\ ballDetections' = Loaded(detections)
    /\ ballDetectionError' = IF error # "" THEN error ELSE ballDetectionError

\* <VideoEditor> is rendered for a video: a fresh instance
MountEditor ==
    /\ mounts' = mounts + 1
    /\ duration' = 0
    /\ ballDetectionAttempted' = FALSE
    /\ isBallDetectionLoading' = FALSE

\* loadDemoVideo up to setVideoData, or its catch
LoadDemoVideo ==
    /\ demoPhase = "pending"
    /\ \/ /\ videoData' = DemoVideo
          /\ demoPhase' = "videoSet"
          /\ MountEditor
       \/ /\ demoPhase' = "settled"
          /\ UNCHANGED <<videoData, mounts, duration, ballDetectionAttempted,
                         isBallDetectionLoading>>
    /\ UNCHANGED <<runs, storedBy, ballDetections, ballDetectionError,
                   inputVideo, ballFile, persistedRun, outsidePageVars>>

\* loadDemoVideo after setVideoData: the demo detections, when the file is
\* there and not empty, are stored directly
LoadDemoDetections ==
    /\ demoPhase = "videoSet"
    /\ demoPhase' = "settled"
    /\ \/ /\ ballDetections' = Loaded(<<Rec(DemoVideo, 0)>>)
          /\ storedBy' = 0
       \/ UNCHANGED <<ballDetections, storedBy>>
    /\ UNCHANGED <<videoData, mounts, duration, ballDetectionAttempted,
                   isBallDetectionLoading, runs, ballDetectionError,
                   inputVideo, ballFile, persistedRun, outsidePageVars>>

\* onVideoProcessed of the upload form, shown while there is no video
VideoProcessedByUpload ==
    /\ videoData = NoVideo
    /\ demoPhase = "settled"
    /\ mounts < MaxMounts
    /\ \E v \in Videos : videoData' = v
    /\ MountEditor
    /\ UNCHANGED <<demoPhase, runs, storedBy, ballDetections, ballDetectionError,
                   inputVideo, ballFile, persistedRun, outsidePageVars>>

\* (variant: the effect does not look at ballDetectionAttemptedRef)
DurationChange_Retries ==
    /\ videoData # NoVideo
    /\ \E d \in Durations \ {duration} :
          /\ duration' = d
          /\ IF ~hasBallDetections /\ ~isBallDetectionLoading /\ d > 0
             THEN /\ ballDetectionAttempted' = TRUE
                  /\ isBallDetectionLoading' = TRUE
                  /\ runs' = Append(runs, Run(videoData, mounts))
             ELSE UNCHANGED <<ballDetectionAttempted, isBallDetectionLoading, runs>>
    /\ UNCHANGED <<videoData, demoPhase, mounts, storedBy, ballDetections,
                   ballDetectionError, inputVideo, ballFile, persistedRun,
                   outsidePageVars>>

\* handleLoadedMetadata sets the duration; the effect on [duration] starts
\* the run when nothing is loaded, loading or attempted
DurationChange ==
    /\ videoData # NoVideo
    /\ \E d \in Durations \ {duration} :
          /\ duration' = d
          /\ IF ~hasBallDetections /\ ~isBallDetectionLoading
                /\ ~ballDetectionAttempted /\ d > 0
             THEN /\ ballDetectionAttempted' = TRUE
                  /\ isBallDetectionLoading' = TRUE
                  /\ runs' = Append(runs, Run(videoData, mounts))
             ELSE UNCHANGED <<ballDetectionAttempted, isBallDetectionLoading, runs>>
    /\ UNCHANGED <<videoData, demoPhase, mounts, storedBy, ballDetections,
                   ballDetectionError, inputVideo, ballFile, persistedRun,
                   outsidePageVars>>

\* a render with the same duration: the effect does not run again
Rerender ==
    /\ videoData # NoVideo
    /\ UNCHANGED vars

\* a detection event reaches run r: accumulate, and report a copy when
\* 500 ms have passed since the last report
RunDetection(r) ==
    /\ runs[r].open
    /\ runs[r].acc < MaxFrames
    /\ runs' = [runs EXCEPT ![r].acc = @ + 1]
    /\ \/ /\ handleBallDetectionsLoaded(RunRecords(runs'[r]), "")
          /\ storedBy' = r
       \/ UNCHANGED <<ballDetections, ballDetectionError, storedBy>>
    /\ UNCHANGED <<videoData, demoPhase, mounts, duration, ballDetectionAttempted,
                   isBallDetectionLoading, inputVideo, ballFile, persistedRun,
                   outsidePageVars>>

\* the done event reaches run r: report a copy of everything accumulated
RunDone(r) ==
    /\ runs[r].open
    /\ ~runs[r].done
    /\ runs' = [runs EXCEPT ![r].done = TRUE]
    /\ handleBallDetectionsLoaded(RunRecords(runs[r]), "")
    /\ storedBy' = r
    /\ UNCHANGED <<videoData, demoPhase, mounts, duration, ballDetectionAttempted,
                   isBallDetectionLoading, inputVideo, ballFile, persistedRun,
                   outsidePageVars>>

\* run r ends (end of the body, an error event, an exception or the abort),
\* with an error message or without: the last report, then the finally block, whose state updates reach the
\* instance only while it is mounted; what the request had accumulated goes
\* with it
RunEnds(r) ==
    /\ runs[r].open
    /\ \E error \in {"", FailedMsg} :
          /\ runs' = [runs EXCEPT ![r] = [Run(@.video, @.mount) EXCEPT
                                              !.open = FALSE,
                                              !.failed = (error # "")]]
          /\ handleBallDetectionsLoaded(RunRecords(runs[r]), error)
    /\ storedBy' = r
    /\ isBallDetectionLoading' = IF videoData # NoVideo /\ runs[r].mount = mounts
                                  THEN FALSE
                                  ELSE isBallDetectionLoading
    /\ UNCHANGED <<videoData, demoPhase, mounts, duration, ballDetectionAttempted,
                   inputVideo, ballFile, persistedRun, outsidePageVars>>

\* handleReset: DELETE /api/cache (a failure is logged), then the page state
\* is cleared and the editor unmounts; a run in flight is not aborted
handleReset ==
    /\ videoData # NoVideo
    /\ \/ /\ inputVideo' = 0
          /\ ballFile' = NoFile
          /\ persistedRun' = NotFromLiveRun
       \/ UNCHANGED <<inputVideo, ballFile, persistedRun>>
    /\ videoData' = NoVideo
    /\ ballDetections' = Undefined
    /\ ballDetectionError' = ""
    /\ storedBy' = 0
    /\ duration' = 0
    /\ ballDetectionAttempted' = FALSE
    /\ isBallDetectionLoading' = FALSE
    /\ UNCHANGED <<demoPhase, mounts, runs, outsidePageVars>>

PageNext ==
    \/ LoadDemoVideo
    \/ LoadDemoDetections
    \/ VideoProcessedByUpload
    \/ DurationChange
    \/ Rerender
    \/ \E r \in 1..Len(runs) : RunDetection(r)
    \/ \E r \in 1..Len(runs) : RunDone(r)
    \/ \E r \in 1..Len(runs) : RunEnds(r)
    \/ handleReset

(* ---------------- the export ---------------- *)

NoRequest == [kind |-> "none", segments |-> <<>>]

\* the parsed JSON body of a request: segments is an array, is something
\* else, or is missing; or the body is not JSON at all
Body(kind, segments) == [kind |-> kind, segments |-> segments]

\* { start: seg.start, end: seg.end }
Clip(i) == [start |-> SegStart(i), end |-> SegEnd(i)]

\* videoData.segments.filter((_, index) => selectedSegments.has(index)).map(...)
RECURSIVE segmentsToExport(_)
segmentsToExport(index) ==
    IF index >= segCount THEN <<>>
    ELSE (IF SetHas(selectedSegments, index) THEN <<Clip(index)>> ELSE <<>>)
         \o segmentsToExport(index + 1)

\* bodies a caller other than the editor may send
DirectBodies ==
    {Body("unparsable", <<>>), Body("missing", <<>>), Body("notArray", <<>>),
     Body("array", <<>>), Body("array", <<Clip(1), Clip(0)>>)}

ExportInit ==
    /\ isExporting = FALSE
    /\ exportRequest = NoRequest
    /\ exportStatus = 0
    /\ ffmpegRan = FALSE
    /\ ffmpegSegments = <<>>

\* (variant: the editor sends the selection in the order it was made)
handleExport_InSelectionOrder ==
    /\ segCount > 0
    /\ ~isExporting
    /\ exportRequest = NoRequest
    /\ IF Len(selectedSegments) = 0
       THEN UNCHANGED <<isExporting, exportRequest>>
       ELSE /\ isExporting' = TRUE
            /\ exportRequest' = Body("array", [k \in 1..Len(selectedSegments) |->
                                                 Clip(selectedSegments[k])])
    /\ UNCHANGED <<exportStatus, ffmpegRan, ffmpegSegments, nonExportVars>>

\* handleExport up to the fetch: an alert and nothing else when nothing is
\* selected; the button takes no click while isExporting
handleExport ==
    /\ segCount > 0
    /\ ~isExporting
    /\ exportRequest = NoRequest
    /\ IF Len(selectedSegments) = 0
       THEN UNCHANGED <<isExporting, exportRequest>>
       ELSE /\ isExporting' = TRUE
            /\ exportRequest' = Body("array", segmentsToExport(0))
    /\ UNCHANGED <<exportStatus, ffmpegRan, ffmpegSegments, nonExportVars>>

\* another caller posts to the route
DirectPost ==
    /\ exportRequest = NoRequest
    /\ \E body \in DirectBodies : exportRequest' = body
    /\ UNCHANGED <<isExporting, exportStatus, ffmpegRan, ffmpegSegments, nonExportVars>>

\* POST /api/export: 500 when the body is not JSON, 400 when segments is
\* missing, not an array or empty, 404 when stat finds no input.mp4 (other
\* requests write and remove it, here it is there or not), else one run of
\* ffmpeg over the segments in the order given, which succeeds or fails
ExportRoute ==
    /\ exportRequest # NoRequest
    /\ exportRequest' = NoRequest
    /\ IF exportRequest.kind = "unparsable"
       THEN /\ exportStatus' = 500
            /\ ffmpegRan' = FALSE
            /\ ffmpegSegments' = <<>>
       ELSE IF exportRequest.kind # "array" \/ Len(exportRequest.segments) = 0
       THEN /\ exportStatus' = 400
            /\ ffmpegRan' = FALSE
            /\ ffmpegSegments' = <<>>
       ELSE \/ /\ exportStatus' = 404
               /\ ffmpegRan' = FALSE
               /\ ffmpegSegments' = <<>>
            \/ /\ ffmpegRan' = TRUE
               /\ ffmpegSegments' = exportRequest.segments
               /\ exportStatus' \in {200, 500}
    /\ UNCHANGED <<isExporting, nonExportVars>>

\* the finally block of handleExport, one second after the response
ExportSettles ==
    /\ isExporting
    /\ exportRequest = NoRequest
    /\ isExporting' = FALSE
    /\ UNCHANGED <<exportRequest, exportStatus, ffmpegRan, ffmpegSegments,
                   nonExportVars>>

ExportNext ==
    \/ VideoProcessed
    \/ ClickToggle
    \/ CheckboxChange
    \/ handleExport
    \/ DirectPost
    \/ ExportRoute
    \/ ExportSettles

(* ---------------- playback ---------------- *)

\* null, and the -1 of findIndex
NoSegment == 0 - 1

\* times are counted in hundredths of a second: the handlers compare with
\* seg.end - 0.02 and seek to seg.start + 0.01
PerSecond == 100
StartOf(i) == SegStart(i) * PerSecond
EndOf(i) == SegEnd(i) * PerSecond

\* where a seek of the editor lands in segment i
SeekTime(i) == StartOf(i) + 1

\* where jumpToSegment lands: start + 0.15, kept inside the segment
JumpTime(i) ==
    LET seekTime == IF StartOf(i) + 15 < EndOf(i) - 1 THEN StartOf(i) + 15 ELSE EndOf(i) - 1
    IN  IF StartOf(i) > seekTime THEN StartOf(i) ELSE seekTime

\* the positions of the video this model looks at: around both ends of every
\* segment, and the end of the video
VideoTimes ==
    UNION {{StartOf(i), SeekTime(i), JumpTime(i), EndOf(i) - 3, EndOf(i) - 2, EndOf(i) - 1}
              : i \in SegIndices}
    \cup {EndOf(segCount - 1)}

Lowest(S) == CHOOSE x \in S : \A y \in S : x <= y
Highest(S) == CHOOSE x \in S : \A y \in S : x >= y

\* [...selectedSegments].sort((a, b) => a - b)[0] ?? null
LowestSelected ==
    IF Len(selectedSegments) = 0 THEN NoSegment ELSE Lowest(SetElements(selectedSegments))

\* [...selectedSegments].filter((i) => i > from).sort((a, b) => a - b)[0] ?? null
getNextSelected(from) ==
    LET after == {i \in SetElements(selectedSegments) : i > from}
    IN  IF after = {} THEN NoSegment ELSE Lowest(after)

\* [...selectedSegments].filter((i) => i < from).sort((a, b) => b - a)[0] ?? null
getPrevSelected(from) ==
    LET before == {i \in SetElements(selectedSegments) : i < from}
    IN  IF before = {} THEN NoSegment ELSE Highest(before)

\* videoData.segments.findIndex(seg => t >= seg.start && t < seg.end)
findIndex(t) ==
    LET hits == {i \in SegIndices : t >= StartOf(i) /\ t < EndOf(i)}
    IN  IF hits = {} THEN NoSegment ELSE Lowest(hits)

\* by: the handler; from: currentSegment when it ran; target: the segment
\* it set the position to, NoSegment when it set none
NoAutoSeek == [by |-> "none", from |-> NoSegment, target |-> NoSegment]
AutoSeek(by, target) == [by |-> by, from |-> currentSegment, target |-> target]

PlayInit ==
    /\ videoCurrentTime = 0
    /\ currentSegment = 0
    /\ isPlaying = FALSE
    /\ autoSeek = NoAutoSeek

\* the video plays on
PlaybackAdvances ==
    /\ segCount > 0
    /\ isPlaying
    /\ \E t \in VideoTimes : t > videoCurrentTime /\ videoCurrentTime' = t
    /\ autoSeek' = NoAutoSeek
    /\ UNCHANGED <<currentSegment, isPlaying, nonPlayVars>>

\* (variant: at the end of a segment playback goes on to the segment after it)
handleTimeUpdate_PlaysOn ==
    /\ segCount > 0
    /\ LET t == videoCurrentTime
           segmentIndex == findIndex(t)
           atEnd == isPlaying /\ currentSegment \in SegIndices
                    /\ t >= EndOf(currentSegment) - 2
           after == IF currentSegment + 1 \in SegIndices
                    THEN currentSegment + 1 ELSE NoSegment
           unselected == isPlaying /\ Len(selectedSegments) > 0
                         /\ ~SetHas(selectedSegments, currentSegment)
           next == IF getNextSelected(currentSegment) # NoSegment
                   THEN getNextSelected(currentSegment) ELSE LowestSelected
           target == IF unselected THEN next
                     ELSE IF atEnd THEN after ELSE NoSegment
       IN  /\ videoCurrentTime' = IF target # NoSegment THEN SeekTime(target) ELSE t
           /\ currentSegment' = IF target # NoSegment THEN target
                                 ELSE IF segmentIndex # NoSegment THEN segmentIndex
                                 ELSE currentSegment
           /\ isPlaying' = IF atEnd /\ after = NoSegment THEN FALSE ELSE isPlaying
           /\ autoSeek' = AutoSeek("timeupdate", target)
    /\ UNCHANGED nonPlayVars

\* the timeupdate handler: note the segment under the position; while
\* playing, at the end of the current segment go to the next selected
\* segment or pause; while playing an unselected segment go to the next
\* selected one, else to the lowest selected one
handleTimeUpdate ==
    /\ segCount > 0
    /\ LET t == videoCurrentTime
           segmentIndex == findIndex(t)
           atEnd == isPlaying /\ currentSegment \in SegIndices
                    /\ t >= EndOf(currentSegment) - 2
           after == getNextSelected(currentSegment)
           unselected == isPlaying /\ Len(selectedSegments) > 0
                         /\ ~SetHas(selectedSegments, currentSegment)
           next == IF after # NoSegment THEN after ELSE LowestSelected
           target == IF unselected THEN next
                     ELSE IF atEnd THEN after ELSE NoSegment
       IN  /\ videoCurrentTime' = IF target # NoSegment THEN SeekTime(target) ELSE t
           /\ currentSegment' = IF target # NoSegment THEN target
                                 ELSE IF segmentIndex # NoSegment THEN segmentIndex
                                 ELSE currentSegment
           /\ isPlaying' = IF atEnd /\ after = NoSegment THEN FALSE ELSE isPlaying
           /\ autoSeek' = AutoSeek("timeupdate", target)
    /\ UNCHANGED nonPlayVars

\* the ended event
handleEnded ==
    /\ segCount > 0
    /\ videoCurrentTime = EndOf(segCount - 1)
    /\ isPlaying
    /\ isPlaying' = FALSE
    /\ autoSeek' = NoAutoSeek
    /\ UNCHANGED <<videoCurrentTime, currentSegment, nonPlayVars>>

\* the play button: pause, or play from a selected segment
togglePlay ==
    /\ segCount > 0
    /\ LET next == IF getNextSelected(currentSegment) # NoSegment
                   THEN getNextSelected(currentSegment) ELSE LowestSelected
           target == IF ~isPlaying /\ ~SetHas(selectedSegments, currentSegment)
                     THEN next ELSE NoSegment
       IN  /\ videoCurrentTime' = IF target # NoSegment THEN SeekTime(target)
                                   ELSE videoCurrentTime
           /\ currentSegment' = IF target # NoSegment THEN target ELSE currentSegment
           /\ autoSeek' = AutoSeek("togglePlay", target)
    /\ isPlaying' = ~isPlaying
    /\ UNCHANGED nonPlayVars

playNextSegment ==
    /\ segCount > 0
    /\ LET next == getNextSelected(currentSegment)
       IN  IF next = NoSegment
           THEN UNCHANGED <<videoCurrentTime, currentSegment, isPlaying>>
                /\ autoSeek' = AutoSeek("next", NoSegment)
           ELSE /\ videoCurrentTime' = SeekTime(next)
                /\ currentSegment' = next
                /\ isPlaying' = TRUE
                /\ autoSeek' = AutoSeek("next", next)
    /\ UNCHANGED nonPlayVars

playPreviousSegment ==
    /\ segCount > 0
    /\ LET prev == getPrevSelected(currentSegment)
       IN  IF prev = NoSegment
           THEN UNCHANGED <<videoCurrentTime, currentSegment, isPlaying>>
                /\ autoSeek' = AutoSeek("previous", NoSegment)
           ELSE /\ videoCurrentTime' = SeekTime(prev)
                /\ currentSegment' = prev
                /\ isPlaying' = TRUE
                /\ autoSeek' = AutoSeek("previous", prev)
    /\ UNCHANGED nonPlayVars

\* a click on a segment of the timeline
jumpToSegment ==
    /\ segCount > 0
    /\ \E index \in SegIndices :
          /\ videoCurrentTime' = JumpTime(index)
          /\ currentSegment' = index
    /\ autoSeek' = NoAutoSeek
    /\ UNCHANGED <<isPlaying, nonPlayVars>>

\* the user drags the position
handleSeek ==
    /\ segCount > 0
    /\ \E t \in VideoTimes : t # videoCurrentTime /\ videoCurrentTime' = t
    /\ autoSeek' = NoAutoSeek
    /\ UNCHANGED <<currentSegment, isPlaying, nonPlayVars>>

PlayNext ==
    \/ VideoProcessed
    \/ ClickToggle
    \/ CheckboxChange
    \/ PlaybackAdvances
    \/ handleTimeUpdate
    \/ handleEnded
    \/ togglePlay
    \/ playNextSegment
    \/ playPreviousSegment
    \/ jumpToSegment
    \/ handleSeek

Init ==
    /\ ServerInit /\ ClientInit /\ AggInit /\ SelInit /\ SegInit /\ PoolInit /\ FormInit
    /\ PageInit /\ ExportInit /\ PlayInit

Next ==
    \/ UploadVideo
    \/ DeleteCache
    \/ StartRequest
    \/ CachedReplay
    \/ CacheMiss
    \/ FetchFlask
    \/ ProxyLine
    \/ UpstreamFails
    \/ UpstreamEnds
    \/ RunDetector
    \/ ReadResult
    \/ Cancel

Spec == Init /\ [][Next]_vars

SpecClient == Init /\ [][ClientNext]_vars

\* the 10-minute timeout is a timer of the browser: once armed it fires
\* unless the run ends first
SpecClientLive == Init /\ [][ClientNext]_vars /\ WF_vars(AbortTimeout)

SpecAgg == Init /\ [][AggNext]_vars

SpecPool == Init /\ [][PoolNext]_vars

SpecForm == Init /\ [][FormNext]_vars

SpecPage == Init /\ [][PageNext]_vars

SpecExport == Init /\ [][ExportNext]_vars

SpecPlay == Init /\ [][PlayNext]_vars

SpecSeg == Init /\ [][SegNext]_vars

SpecSel == Init /\ [][SelNext]_vars

\* the route with no editor run, or an editor run against a body the route
\* is not producing: the two share no variable
RouteOrEditorNext ==
    \/ ClientInit /\ Next
    \/ ServerInit /\ ClientNext

SpecRouteOrEditor == Init /\ [][RouteOrEditorNext]_vars

(* ======================= claims on the detect-balls route ======================= *)

DetIdx(q) == {i \in 1..Len(q) : q[i].type = "detection"}
TermIdx(q) == {i \in 1..Len(q) : q[i].type \in {"done", "error"}}

\* C1: within one response stream the frame indices of successive detection
\* events never decrease, on every path (cached, live, fallback after a live
\* failure).
C1_FramesNeverDecrease ==
    \A i \in DetIdx(out) : \A j \in DetIdx(out) :
        i < j => out[i].frame <= out[j].frame

\* C2: every response stream ends with exactly one terminal event (done or
\* error), never both and never none, and no detection event follows it.
C2_ExactlyOneTerminal ==
    /\ Cardinality(TermIdx(out)) <= 1
    /\ \A t \in TermIdx(out) : \A d \in DetIdx(out) : d < t
    /\ (pc = "closed" /\ ~cancelled) => Cardinality(TermIdx(out)) = 1

\* C4: when the stored result exists and parses at the cache check, the
\* request replays exactly the stored records and closes, with no call of
\* Flask, no read of an upstream body, no detector run and no write of the
\* store.
C4_CachedReplayNoBackend ==
    cacheRead = "hit" =>
        /\ path = "cached"
        /\ pc = "closed"
        /\ streamClosed
        /\ flaskCalls = 0
        /\ upstreamReads = 0
        /\ detectorCalls = 0
        /\ storeWrites = 0
        /\ ~cancelled => Len(out) >= 2

\* C4 witness: a replay of a non-empty stored result reached the caller
C4_Witness ==
    /\ cacheRead = "hit"
    /\ ~cancelled
    /\ Cardinality(DetIdx(out)) = MaxFrames
    /\ out[Len(out)] = DoneEv("cached")

\* C5: the route writes ball_detections.json only when the live stream it
\* proxied ended with a done event.
C5_WriteOnlyAfterDone ==
    storeWrites > 0 => upTerminal = "done"

\* C6: a cached replay carries only records computed for the video that is
\* stored as input.mp4 when the cache is read.
C6_ReplayIsCurrentVideo ==
    path = "cached" => \A i \in DetIdx(out) : out[i].vid = replayInput

\* C7: the fallback (meta fallback, then the detector script) is entered only
\* when no detection event was forwarded on this response stream before.
C7_FallbackOnlyBeforeDetections ==
    \A i \in 1..Len(out) :
        out[i] = MetaEv("fallback") => \A j \in 1..(i - 1) : out[j].type # "detection"

\* C9: once the caller has cancelled the response stream, the request reads
\* the upstream body no further and does not run the detector.
C9_NoWorkAfterCancel ==
    [][cancelled => (upstreamReads' <= upstreamReads /\ detectorCalls' <= detectorCalls)]_vars

\* C11: every line written to the response stream is a JSON object whose
\* type is meta, detection, error or done, the lines forwarded from the
\* upstream included, whatever the upstream sends.
C11_OnlyProtocolLines ==
    \A i \in 1..Len(out) : out[i].type \in {"meta", "detection", "error", "done"}

MetaIdx(q) == {i \in 1..Len(q) : q[i].type = "meta"}

\* C13 as stated: a cached replay sends its detection events first, then
\* one meta cached event, then one done event.
C13_DetectionsBeforeMeta ==
    (path = "cached" /\ pc = "closed" /\ ~cancelled) =>
        /\ Cardinality(MetaIdx(out)) = 1
        /\ \A d \in DetIdx(out) : \A m \in MetaIdx(out) : d < m
        /\ out[Len(out)].type = "done"

\* C13 (amended): the step that replays the stored result sends exactly one
\* meta cached event first, then one detection event per stored record in
\* stored order, then exactly one done event, and closes the stream.
C13_MetaThenDetectionsThenDone ==
    [][(pc = "cacheCheck" /\ cacheRead' = "hit" /\ ~cancelled) =>
         /\ out' = <<MetaEv("cached")>>
                    \o [i \in 1..Len(ballFile.data) |->
                          DetectionEv(JSONparse(ballFile.data)[i], Len(ballFile.data),
                                      Len(ballFile.data))]
                    \o <<DoneEv("cached")>>
         /\ streamClosed'
         /\ pc' = "closed"]_vars

\* C13 witness: a replay of MaxFrames stored records, meta first, done last
C13_Witness ==
    /\ path = "cached"
    /\ ~cancelled
    /\ streamClosed
    /\ Len(out) = MaxFrames + 2
    /\ out[1] = MetaEv("cached")
    /\ \A i \in 2..(MaxFrames + 1) : out[i].type = "detection" /\ out[i].frame = i - 2
    /\ out[Len(out)] = DoneEv("cached")

\* C14: on every response stream the processed field of the k-th detection
\* event is k and never exceeds total (live, cached and fallback paths).
C14_ProcessedCountsEmissions ==
    \A i \in DetIdx(out) :
        /\ out[i].processed = Cardinality({j \in DetIdx(out) : j <= i})
        /\ out[i].processed <= out[i].total

\* C15: when Flask answers 401 on the first call, the response stream ends
\* with exactly one error event with the authentication message and carries
\* no detection event.
C15_Auth401EndsWithAuthError ==
    (fallbackCause = "status401" /\ pc = "closed" /\ ~cancelled) =>
        /\ DetIdx(out) = {}
        /\ Cardinality({i \in 1..Len(out) : out[i].type = "error"}) = 1
        /\ out[Len(out)] = ErrorEv("invalid-key")

ErrorIdx(q) == {i \in 1..Len(q) : q[i].type = "error"}

\* the message the rule of C22 gives for a failure text
C22_Message(text) ==
    IF \E mk \in {"Unauthorized", "API key", "RoboflowAPINotAuthorizedError"} : mk \in text
    THEN "invalid-key"
    ELSE IF "ROBOFLOW_API_KEY" \in text THEN "key-not-set"
    ELSE "generic"

\* C22: when the fallback detector fails, the response stream carries
\* exactly one error event and no done event, and the message of the error
\* is the invalid-key message if the failure text contains "Unauthorized",
\* "API key" or "RoboflowAPINotAuthorizedError", else the key-not-set message
\* if it contains "ROBOFLOW_API_KEY", else the generic message.
C22_FallbackFailureIsOneError ==
    /\ \A text \in SUBSET Markers : errorMsg(text) = C22_Message(text)
    /\ (detectorFailed /\ ~cancelled) =>
          /\ Cardinality(ErrorIdx(out)) = 1
          /\ \A i \in 1..Len(out) : out[i].type # "done"
          /\ \E text \in SUBSET Markers : out[Len(out)] = ErrorEv(C22_Message(text))

(* ======================= claims on POST /api/process-video ======================= *)

\* C16: when scene detection fails (Flask /process fails and the fallback
\* scene script fails too), process-video answers with a non-2xx status and
\* no scenes; it never answers success with an empty scenes array.
C16_SceneFailureIsAnError ==
    uploadResp.sceneDetection = "failed" =>
        /\ ~(uploadResp.status \in 200..299)
        /\ uploadResp.scenes = "none"

(* ======================= claims on the editor's detection run ======================= *)

\* C8: when the run ends on an error event or by an exception, the page's
\* detections are exactly the records received before that point and the
\* page's error is the message of that error.
C8_PartialResultsKeptOnError ==
    endCause \in {"errorEvent", "exception", "abortTimeout"} =>
        /\ ballDetections = Loaded(received)
        /\ ballDetectionError = endMsg
        /\ endMsg # ""
        /\ deliveries[Len(deliveries)] = received

\* C8 witness: an error event arrived after records that no flush had
\* reported yet
C8_Witness ==
    /\ endCause = "errorEvent"
    /\ Len(deliveries) >= 2
    /\ Len(received) >= 2
    /\ Len(deliveries[Len(deliveries) - 1]) < Len(received)
    /\ ballDetections = Loaded(received)

\* C10: a run ended by a time limit (the 10-minute abort or the 5-minute
\* no-data timeout) reports the timeout message and everything accumulated.
C10_TimeoutReported ==
    endCause \in {"abortTimeout", "idleTimeout"} =>
        /\ ballDetectionError = TimeoutMsg
        /\ ballDetections = Loaded(received)

\* C12: a line that is not JSON does not abort processing. The reader skips
\* it (the read loop goes on, nothing is reported or dropped) and what it
\* has accumulated is every detection event of the body, before and after
\* the malformed line; the route goes on proxying after it and the records
\* it will persist are exactly those of the detection lines.
C12_MalformedLineSkipped ==
    /\ [](accumulated = DetRecs(lineLog))
    /\ [][(linesRead' = linesRead + 1 /\ lineLog'[Len(lineLog')] = MalformedLine) =>
            /\ cpc' = "reading"
            /\ accumulated' = accumulated
            /\ deliveries' = deliveries
            /\ endCause' = endCause]_vars
    /\ []((path = "live" /\ ~cancelled) => allDetections = DetRecs(out))
    /\ [][(upMalformed' = upMalformed + 1) =>
            /\ pc' = "proxy"
            /\ allDetections' = allDetections
            /\ upstreamReads' = upstreamReads + 1]_vars

\* C12 witness: the body carried a malformed line between two detection
\* events, and the run ended normally with both records reported
C12_Witness ==
    /\ cpc = "finished"
    /\ endCause = "eof"
    /\ \E i, j, k \in 1..Len(lineLog) :
          /\ i < j /\ j < k
          /\ lineLog[i].type = "detection"
          /\ lineLog[j] = MalformedLine
          /\ lineLog[k].type = "detection"
    /\ Len(accumulated) >= 2
    /\ ballDetections = Loaded(accumulated)

IsPrefix(s, t) == Len(s) <= Len(t) /\ \A i \in 1..Len(s) : s[i] = t[i]

\* C23: within one run the lists passed to onBallDetectionsLoaded are
\* append-only (each is a prefix of every later one); a delivery triggered
\* by a detection event happens only when more than 500 ms have passed since
\* the previous flush; and when the stream ends without an error the last
\* delivery holds every detection record received in the run.
C23_DeliveriesAppendOnly ==
    /\ [](\A i \in 1..Len(deliveries) : \A j \in i..Len(deliveries) :
             IsPrefix(deliveries[i], deliveries[j]))
    /\ [][(linesRead' = linesRead + 1 /\ lineLog'[Len(lineLog')].type = "detection"
              /\ deliveries' # deliveries) =>
            (flushDue /\ ~flushDue' /\ Len(deliveries') = Len(deliveries) + 1)]_vars
    /\ [](endCause = "eof" =>
            /\ deliveries # <<>>
            /\ deliveries[Len(deliveries)] = DetRecs(lineLog))

\* C23 witness: a flush after the first record, later deliveries, and the
\* stream ended normally with every record in the last one
C23_Witness ==
    /\ endCause = "eof"
    /\ Len(deliveries) >= 3
    /\ Len(deliveries[1]) = 1
    /\ Len(deliveries[Len(deliveries)]) = MaxFrames
    /\ MaxFrames >= 2

(* ======================= claims on the segment selection ======================= *)

\* the segments whose range [start, end) contains a made basket
MadeSegments ==
    {i \in SegIndices : \E t \in madeTimes : SegStart(i) <= t /\ t < SegEnd(i)}

\* C17: with AI highlight detection enabled, once detection results are
\* available the selected segments are exactly the segments that contain a
\* detection with a Made-Basket box.
C17_AiSelectsMadeBaskets ==
    (segCount > 0 /\ aiHighlighting /\ detectionsKnown) => SetElements(selectedSegments) = MadeSegments

(* ======================= claims on the SceneSegmenter ======================= *)

\* C18: for every score sequence, threshold and minimum length the returned
\* segments are ordered by start, each has start < end, consecutive ones are
\* contiguous, together they cover [0, duration), and every segment but the
\* last lasts at least the minimum length.
C18_SegmentsPartitionTheVideo ==
    segPhase = "done" =>
        /\ Len(segOut) >= 1
        /\ segOut[1].start = 0
        /\ segOut[Len(segOut)].end = segPos
        /\ \A i \in 1..Len(segOut) : segOut[i].start < segOut[i].end
        /\ \A i \in 1..(Len(segOut) - 1) :
              /\ segOut[i].end = segOut[i + 1].start
              /\ segOut[i].start < segOut[i + 1].start
              /\ segOut[i].end - segOut[i].start >= segMinLen

\* C18 witness: three segments or more, a minimum length above one frame,
\* and a last segment shorter than the minimum
C18_Witness ==
    /\ segPhase = "done"
    /\ segMinLen >= 2
    /\ Len(segOut) >= 3
    /\ segOut[Len(segOut)].end - segOut[Len(segOut)].start < segMinLen

\* the run was the literal example: 10 frames, its scores, threshold 70,
\* minimum length 3
ExampleDone == segPhase = "done" /\ segScores /\ segPos = Len(ExampleScores) + 1

C3_OrderedEmission ==
    /\ \A i \in 1..Len(aggEmitted) : aggEmitted[i].frame = i - 1
    /\ \A i \in 1..Len(aggEmitted) : \A j \in 1..Len(aggEmitted) :
          i < j => aggEmitted[i].frame < aggEmitted[j].frame
    /\ Len(aggEmitted) = aggCursor
    /\ (aggTotal > 0 /\ Len(aggOrder) = aggTotal) =>
          (Len(aggEmitted) = aggTotal /\ aggBuffer = {})

\* C3 witness: all frames of a run completed, frame 0 last, one of them as a
\* failure, and everything was emitted
C3_Witness ==
    /\ aggTotal >= 3
    /\ Len(aggOrder) = aggTotal
    /\ aggOrder[aggTotal] = 0
    /\ \E i \in 1..Len(aggEmitted) : aggEmitted[i].boxes = "empty"
    /\ Len(aggEmitted) = aggTotal

(* ======================= claims on the DetectionWorkerPool ======================= *)

Unreadable(file) == file.kind \in {"error", "nan"}

\* C21: processVideo sends POST /api/process-video only if the measured
\* duration is at most 120 seconds; for a longer video it sets the too-long
\* flag, does not enter the processing state and sends nothing; a video
\* whose duration cannot be read counts as 60 seconds and is accepted.
C21_UploadOnlyUpToTwoMinutes ==
    /\ [][xhrSent' # xhrSent => filesChosen' = filesChosen + 1]_vars
    /\ [][filesChosen' = filesChosen + 1 =>
            /\ ~isProcessing
            /\ chosenFile'.kind = "number" /\ chosenFile'.tenths > 0
                  => videoDuration' = chosenFile'.tenths
            /\ Unreadable(chosenFile') => videoDuration' = 60 * 10
            /\ IF videoDuration' <= 120 * 10
               THEN xhrSent' = xhrSent + 1 /\ isProcessing' /\ ~videoTooLong'
               ELSE xhrSent' = xhrSent /\ ~isProcessing' /\ videoTooLong']_vars

\* C21 witness: one file was refused as too long, then a file whose
\* metadata fails to load was sent
C21_Witness ==
    /\ filesChosen = 2
    /\ xhrSent = 1
    /\ chosenFile.kind = "error"
    /\ videoDuration = 600
    /\ isProcessing
    /\ ~videoTooLong

\* C24: a live run whose upstream body ran to its end with the client still
\* connected, and whose write succeeded, left a file from which the next
\* request with the cache present replays exactly the records that run
\* forwarded, in the same order
C24_PersistThenReplayIsIdentity ==
    [][(pc = "cacheCheck" /\ cacheRead' = "hit" /\ ~cancelled' /\ persistedRun.live)
          => DetRecs(out') = persistedRun.forwarded]_vars

\* a replay has returned all the records of a completed live run
C24_Witness ==
    /\ path = "cached"
    /\ ~cancelled
    /\ persistedRun.live
    /\ Len(persistedRun.forwarded) = MaxFrames
    /\ DetRecs(out) = persistedRun.forwarded

\* C25: the detections the page holds were stored by a run of the editor
\* instance that is mounted now, never by a run started before a reset, so
\* they are records of the video shown
C25_NoRecordOfAnEarlierRun ==
    (ballDetections.set /\ storedBy # 0) =>
        /\ videoData # NoVideo
        /\ runs[storedBy].mount = mounts
        /\ \A i \in 1..Len(ballDetections.data) : ballDetections.data[i].vid = videoData

\* the requests issued by editor instance m
RunsOf(m) == {r \in 1..Len(runs) : runs[r].mount = m}

\* C26: an editor instance issues at most one POST /api/detect-balls, so a
\* run that failed is not retried; a change of the duration issues none when
\* detections are present, and one only from an instance that has not tried
C26_AtMostOnePostPerInstance ==
    /\ [](\A m \in 1..mounts : Cardinality(RunsOf(m)) <= 1)
    /\ [][(duration' # duration /\ hasBallDetections) => runs' = runs]_vars
    /\ [][(runs' # runs /\ Len(runs') > Len(runs)) =>
             /\ Len(runs') = Len(runs) + 1
             /\ RunsOf(mounts) = {}
             /\ duration' > 0]_vars

\* C26 witness: the run of the mounted instance has failed without a record,
\* nothing is loading, the duration is known, and no second request exists
C26_Witness ==
    /\ videoData # NoVideo
    /\ duration > 0
    /\ ~hasBallDetections /\ ~isBallDetectionLoading
    /\ \E r \in RunsOf(mounts) : ~runs[r].open /\ runs[r].failed
    /\ Cardinality(RunsOf(mounts)) = 1

\* C27: every run the editor starts ends, and however it ends (end of the
\* body, error event, exception, abort) the loading flag is false, the
\* progress is 0 and neither the estimate interval nor the abort timeout is
\* left armed; while the run is in progress the abort timeout is armed
C27_RunLeavesLoading ==
    /\ [](cpc = "finished" =>
            /\ ~isLoading
            /\ ballDetectionProgress = 0
            /\ ~estTimer
            /\ ~abortTimer)
    /\ [](cpc \in {"fetching", "reading"} => isLoading /\ abortTimer)
    /\ (cpc \in {"fetching", "reading"}) ~> (cpc = "finished")

\* C27 witness: a fallback run that started the estimate interval and whose
\* done event set the progress to 100 ended at the end of the body
C27_Witness ==
    /\ cpc = "finished"
    /\ endCause = "eof"
    /\ Len(lineLog) >= 2
    /\ linesRead = Len(lineLog)
    /\ lineLog[1] = MetaEv("fallback")
    /\ lineLog[Len(lineLog)].type = "done"
    /\ ~isLoading /\ ballDetectionProgress = 0 /\ ~estTimer /\ ~abortTimer

\* a request body that names no segment
NoSegments(body) == body.kind \in {"missing", "notArray"} \/ body.segments = <<>>

\* the editor's handleExport has sent a request in this step
EditorPosts == ~isExporting /\ isExporting'

\* C28: the editor posts to /api/export only with a non-empty selection, the
\* body lists exactly the selected segments, by start and end, in ascending
\* index order whatever the order of selection; the route answers 400 and
\* does not run ffmpeg when segments is missing, not an array or empty, so
\* ffmpeg never runs on an empty list
C28_ExportNeverOnEmptyList ==
    /\ [][EditorPosts =>
             /\ Len(selectedSegments) > 0
             /\ exportRequest'.kind = "array"
             /\ Len(exportRequest'.segments) = Len(selectedSegments)
             /\ \A k \in 1..Len(exportRequest'.segments) :
                   \E i \in SetElements(selectedSegments) :
                       exportRequest'.segments[k] = Clip(i)
             /\ \A k \in 1..(Len(exportRequest'.segments) - 1) :
                   exportRequest'.segments[k].start < exportRequest'.segments[k + 1].start]_vars
    /\ [][(exportRequest.kind \in {"missing", "notArray", "array"}
              /\ NoSegments(exportRequest) /\ exportRequest' = NoRequest)
            => (exportStatus' = 400 /\ ~ffmpegRan')]_vars
    /\ [](ffmpegRan => Len(ffmpegSegments) > 0)

\* C28 witness: the selection was made in descending order and ffmpeg ran on
\* the editor's request, which lists the segments in ascending order
C28_Witness ==
    /\ segCount = MaxSegments
    /\ Len(selectedSegments) >= 2
    /\ selectedSegments[1] > selectedSegments[2]
    /\ isExporting
    /\ exportStatus = 200
    /\ ffmpegRan
    /\ ffmpegSegments = segmentsToExport(0)

\* the step is a run of the named handler (the selection does not change)
HandlerRan(by) ==
    autoSeek'.by = by /\ selectedSegments' = selectedSegments /\ segCount' = segCount

\* C29: every seek made by the timeupdate handler, togglePlay,
\* playNextSegment and playPreviousSegment lands in a selected segment; at
\* the end of the current segment the timeupdate handler goes to the lowest
\* selected segment after it and pauses when there is none; from an
\* unselected current segment it goes to the next selected segment after it,
\* else to the lowest selected one; next and previous change nothing when no
\* selected segment lies in their direction
C29_AutoSeeksTargetSelected ==
    /\ [][(\E by \in {"timeupdate", "togglePlay", "next", "previous"} : HandlerRan(by)) =>
             /\ videoCurrentTime' # videoCurrentTime => autoSeek'.target # NoSegment
             /\ autoSeek'.target # NoSegment =>
                   /\ SetHas(selectedSegments, autoSeek'.target)
                   /\ videoCurrentTime' = SeekTime(autoSeek'.target)
                   /\ currentSegment' = autoSeek'.target]_vars
    /\ [][(HandlerRan("timeupdate") /\ isPlaying
              /\ videoCurrentTime >= EndOf(currentSegment) - 2) =>
             IF \E i \in SetElements(selectedSegments) : i > currentSegment
             THEN /\ autoSeek'.target \in SetElements(selectedSegments)
                  /\ autoSeek'.target > currentSegment
                  /\ \A i \in SetElements(selectedSegments) :
                        i > currentSegment => autoSeek'.target <= i
                  /\ isPlaying'
             ELSE ~isPlaying']_vars
    /\ [][(HandlerRan("timeupdate") /\ isPlaying /\ Len(selectedSegments) > 0
              /\ ~SetHas(selectedSegments, currentSegment)) =>
             autoSeek'.target =
                 IF \E i \in SetElements(selectedSegments) : i > currentSegment
                 THEN Lowest({i \in SetElements(selectedSegments) : i > currentSegment})
                 ELSE Lowest(SetElements(selectedSegments))]_vars
    /\ [][(HandlerRan("next")
              /\ ~\E i \in SetElements(selectedSegments) : i > currentSegment) =>
             UNCHANGED <<videoCurrentTime, currentSegment, isPlaying>>]_vars
    /\ [][(HandlerRan("previous")
              /\ ~\E i \in SetElements(selectedSegments) : i < currentSegment) =>
             UNCHANGED <<videoCurrentTime, currentSegment, isPlaying>>]_vars

\* C29 witness: while the first segment was current and the one after it
\* was not selected, the timeupdate handler moved playback past that one to
\* the last segment
C29_Witness ==
    /\ segCount = MaxSegments
    /\ autoSeek = [by |-> "timeupdate", from |-> 0, target |-> segCount - 1]
    /\ SetHas(selectedSegments, segCount - 1)
    /\ isPlaying
    /\ currentSegment = segCount - 1
    /\ videoCurrentTime = SeekTime(segCount - 1)

\* the selection before and after the step, as sets of indices
SelBefore == SetElements(selectedSegments)
SelAfter == SetElements(selectedSegments')

\* C30: the selection holds valid segment indices only, each once; a toggle
\* that deselects while every segment is selected leaves exactly the toggled
\* segment, any other deselection removes one segment and nothing else, a
\* selection adds one segment and nothing else; with one segment the
\* selection is never empty; a newly loaded video starts with every segment
\* selected
C30_TogglesKeepSelectionValid ==
    /\ [](/\ SelBefore \subseteq SegIndices
          /\ Cardinality(SelBefore) = Len(selectedSegments))
    /\ [][(segCount' = segCount /\ segCount > 0 /\ SelAfter # SelBefore) =>
             \/ /\ SelBefore = SegIndices
                /\ \E i \in SelBefore : SelAfter = {i}
             \/ /\ SelBefore # SegIndices
                /\ \E i \in SelBefore : SelAfter = SelBefore \ {i}
             \/ \E i \in SegIndices \ SelBefore : SelAfter = SelBefore \cup {i}]_vars
    /\ [](segCount = 1 => selectedSegments = <<0>>)
    /\ [][(segCount = 0 /\ segCount' > 0) => SelAfter = 0..(segCount' - 1)]_vars

\* C30 witness: of several segments one was left alone by a deselection
\* while all were selected, and a second deselection emptied the selection
C30_Witness ==
    /\ segCount = MaxSegments
    /\ selectedSegments = <<>>

====
